---------------------------- MODULE Spec2Model ----------------------------
(***************************************************************************)
(* Model of the verificarlo precision/optimisation experiment pipeline:     *)
(* the source mutator (utils/source_parser.py), the configuration           *)
(* generator and variant generator (02_generate_variants.py), the           *)
(* compiler wrapper (utils/compiler.py), and the staged scripts             *)
(* 03_compile_variants, 04_validate_outputs, 05_setup_ddebug and            *)
(* 06_run_ddebug, and the report generator 07_analyze_results.              *)
(*                                                                          *)
(* Text is a sequence of atoms.  "D" and "F" stand for the words `double`   *)
(* and `float`; "a", "b", "_" and "1" are single word characters; "sp" is   *)
(* a blank, "nl" a newline; ",", ";" and "=" are themselves; "(" is any     *)
(* other non-word character; "//" opens a line comment.                     *)
(***************************************************************************)
EXTENDS Integers, Sequences, FiniteSets, TLC

VARIABLES
    spec,                \* which specification this behaviour belongs to
    \* ---- SourceModifier object and the last calls made on it
    source_code,         \* SourceModifier.source_code
    modified_code,       \* SourceModifier.modified_code
    change_args,         \* arguments of the last change_variable_types call
    change_ret,          \* its return value
    verify_args,         \* arguments of the last verify_modifications call
    verify_ret,          \* its return value <<all_success, failed>>
    last_call,           \* "init", "change" or "verify"
    \* ---- 02_generate_variants.py main
    original_source,     \* text of manifest['source_file']
    all_variables,       \* names listed by the catalog, in catalog order
    mode,                \* args.mode
    variable,            \* args.variable
    configs,             \* list of (config_name, vars_to_modify)
    variants,            \* the variants list built by the loop
    files,               \* variant source files written, by variant_dir
    printed,             \* verification outcome printed for each config
    variant_manifest,    \* manifest.json of the variants, once written
    gen_pc,              \* "start", "loop", "done" or "exit1"
    \* ---- 03_compile_variants.py main
    disk,                \* binary paths that exist on disk
    compilation_results, \* the compilation records built by the loops
    compile_log,         \* per compile call: what the compiler process did
    flags_call,          \* a compile_with_flags call: process and result
    compilation_manifest,\* manifest.json of the compilations, once written
    \* ---- 04_validate_outputs.py main
    validation_results,  \* the validation records built by the loop
    run_log,             \* per record: what running the binary gave
    valid_count,
    invalid_count,
    validation_manifest, \* the validation manifest, once written
    \* ---- 05_setup_ddebug.py main
    dd_setups,           \* the setup entries built by the loop
    workspaces,          \* ddRun/ddCmp written, by workspace directory
    setup_manifest,      \* the setup manifest, once written
    cmp_call,            \* one execution of a generated ddCmp script
    \* ---- 06_run_ddebug.py main
    trees,               \* the dd.line tree of each workspace directory
    invoked,             \* every vfc_ddebug invocation: workspace, backend
    dd_results,          \* backend records of the setup being processed
    all_results,         \* the results built by the outer loop
    dd_manifest,         \* the delta-debug manifest, once written
    \* ---- archimedes_analyzer.py run_single_experiment
    experiment,          \* the experiment being run, its work directory
    \* ---- utils/dd_parser.py
    parse_call,          \* one find_unstable_lines call: tree and result
    \* ---- 07_analyze_results.py main
    analysis,            \* one run of the script: arguments and summary
    \* ---- utils/source_parser.py CSourceParser
    scope_call,          \* one extract_variables(function_name) call
    \* ---- utils/compiler.py compile_batch
    batch                \* one compile_batch call: inputs, futures, results

mvars == <<source_code, modified_code, change_args, change_ret,
           verify_args, verify_ret, last_call>>

gvars == <<original_source, all_variables, mode, variable, configs,
           variants, files, printed, variant_manifest, gen_pc>>

cvars == <<disk, compilation_results, compile_log, flags_call,
           compilation_manifest>>

vvars == <<validation_results, run_log, valid_count, invalid_count,
           validation_manifest>>

svars == <<dd_setups, workspaces, setup_manifest, cmp_call>>

avars == <<analysis, scope_call, batch>>

rvars == <<trees, invoked, dd_results, all_results, dd_manifest,
           experiment, parse_call, avars>>

vars == <<spec, mvars, gvars, cvars, vvars, svars, rvars>>

(***************************************************************************)
(* Bounds                                                                   *)
(***************************************************************************)
MaxVarList == 2          \* longest list of requested variables

MaxLines == 2            \* most non-empty lines in a source text

MaxCells == 1            \* cells of the compile matrix taken per variant

MaxBackends == 2         \* backends taken from BACKENDS

MaxOutLines == 2         \* most lines in the standard output of a binary

(***************************************************************************)
(* Character classes and sequence helpers                                   *)
(***************************************************************************)
TypeAtoms == {"D", "F"}

IsWord(c) == c \in {"D", "F", "a", "b", "_", "1"}

IsSpace(c) == c \in {"sp", "nl"}

\* None where a text, list or path is expected
NoValue == <<"None">>

\* None where a dict is expected, and a file or directory that is absent
NoRecord == [none |-> TRUE]

RECURSIVE Flatten(_)
Flatten(ss) == IF ss = <<>> THEN <<>> ELSE Head(ss) \o Flatten(Tail(ss))

Range(s) == {s[i] : i \in 1..Len(s)}

\* s[i..i+Len(p)-1] = p
MatchesAt(s, i, p) ==
    /\ i + Len(p) - 1 <= Len(s)
    /\ \A k \in 1..Len(p) : s[i + k - 1] = p[k]

\* first index >= i whose atom is not whitespace (Len(s)+1 when none)
RECURSIVE SkipSpace(_, _)
SkipSpace(s, i) ==
    IF i <= Len(s) /\ IsSpace(s[i]) THEN SkipSpace(s, i + 1) ELSE i

\* \b just before position i, where s[i] is a word character
WordStartAt(s, i) == i = 1 \/ ~IsWord(s[i - 1])

\* \b just before position i, where s[i-1] is a word character
WordEndBefore(s, i) == i > Len(s) \/ ~IsWord(s[i])

\* str.split('\n')
RECURSIVE SplitFrom(_, _, _)
SplitFrom(s, i, cur) ==
    IF i > Len(s) THEN <<cur>>
    ELSE IF s[i] = "nl" THEN <<cur>> \o SplitFrom(s, i + 1, <<>>)
    ELSE SplitFrom(s, i + 1, Append(cur, s[i]))

SplitLines(s) == SplitFrom(s, 1, <<>>)

\* '\n'.join(lines)
RECURSIVE JoinLines(_)
JoinLines(ls) ==
    IF ls = <<>> THEN <<>>
    ELSE IF Len(ls) = 1 THEN ls[1]
    ELSE ls[1] \o <<"nl">> \o JoinLines(Tail(ls))

(***************************************************************************)
(* SourceModifier.change_variable_types                                     *)
(***************************************************************************)
\* A match of  \b(float|double)\s+{var}\s*[terms]  starting at i:
\* the index of the terminator, or 0 when there is no match at i.
DeclMatchAt(line, i, var, terms) ==
    IF ~(i <= Len(line) /\ line[i] \in TypeAtoms /\ WordStartAt(line, i))
    THEN 0
    ELSE LET k == SkipSpace(line, i + 1)
             m == SkipSpace(line, k + Len(var))
         IN  IF /\ k > i + 1
                /\ MatchesAt(line, k, var)
                /\ m <= Len(line)
                /\ line[m] \in terms
             THEN m ELSE 0

\* re.sub(rf'\b(float|double)\s+{var}\s*([,;])', rf'{T} {var}\2', line)
RECURSIVE SubPattern1(_, _, _, _)
SubPattern1(line, i, var, T) ==
    IF i > Len(line) THEN <<>>
    ELSE LET m == DeclMatchAt(line, i, var, {",", ";"})
         IN  IF m # 0
             THEN <<T, "sp">> \o var \o <<line[m]>>
                      \o SubPattern1(line, m + 1, var, T)
             ELSE <<line[i]>> \o SubPattern1(line, i + 1, var, T)

\* re.sub(rf'\b(float|double)\s+{var}\s*=', rf'{T} {var} =', line)
RECURSIVE SubPattern2(_, _, _, _)
SubPattern2(line, i, var, T) ==
    IF i > Len(line) THEN <<>>
    ELSE LET m == DeclMatchAt(line, i, var, {"="})
         IN  IF m # 0
             THEN <<T, "sp">> \o var \o <<"sp", "=">>
                      \o SubPattern2(line, m + 1, var, T)
             ELSE <<line[i]>> \o SubPattern2(line, i + 1, var, T)

\* the inner loop over variables_to_modify for one line
RECURSIVE ModifyLine(_, _, _)
ModifyLine(line, vs, T) ==
    IF vs = <<>> THEN line
    ELSE ModifyLine(
             SubPattern2(SubPattern1(line, 1, Head(vs), T), 1, Head(vs), T),
             Tail(vs), T)

\* the loop run without the empty line that follows a final newline
ModifiedTextOmittingLastEmptyLine(src, vs, T) ==
    LET ls == SplitLines(src)
        n  == IF ls[Len(ls)] = <<>> THEN Len(ls) - 1 ELSE Len(ls)
    IN  JoinLines([i \in 1..n |-> ModifyLine(ls[i], vs, T)])

\* the loop over self.lines, joined again
ModifiedText(src, vs, T) ==
    LET ls == SplitLines(src)
    IN  JoinLines([i \in 1..Len(ls) |-> ModifyLine(ls[i], vs, T)])

\* str.splitlines(): as split('\n'), but a trailing newline opens no last line
SplitLinesKeepends(s) ==
    IF s # <<>> /\ s[Len(s)] = "nl"
    THEN SplitLines(SubSeq(s, 1, Len(s) - 1))
    ELSE IF s = <<>> THEN <<>> ELSE SplitLines(s)

\* change_variable_types without its early return, over splitlines()
ChangeVariableTypesNoEarlyReturn(src, vs, T) ==
    LET ls == SplitLinesKeepends(src)
    IN  JoinLines([i \in 1..Len(ls) |-> ModifyLine(ls[i], vs, T)])

\* the return value of change_variable_types
change_variable_types(src, vs, T) ==
    IF vs = <<>> THEN src ELSE ModifiedText(src, vs, T)

\* self.modified_code after change_variable_types
ModifiedCodeAfterChange(old, src, vs, T) ==
    IF vs = <<>> THEN old ELSE ModifiedText(src, vs, T)

(***************************************************************************)
(* SourceModifier.verify_modifications                                      *)
(***************************************************************************)
\* re.search(rf'\b{T}\s+{var}\b', text)
TypedNameFound(text, var, T) ==
    \E i \in 1..Len(text) :
        /\ text[i] = T
        /\ WordStartAt(text, i)
        /\ LET k == SkipSpace(text, i + 1)
           IN  /\ k > i + 1
               /\ MatchesAt(text, k, var)
               /\ WordEndBefore(text, k + Len(var))

verify_modifications(text, vs, T) ==
    LET failed == SelectSeq(vs, LAMBDA v : ~TypedNameFound(text, v, T))
    IN  <<failed = <<>>, failed>>

(***************************************************************************)
(* CSourceParser: _read_source and extract_variables (whole-file scope)     *)
(***************************************************************************)
\* re.sub(r'//.*', '', content): drop from "//" to the end of its line
RECURSIVE StripLineComments(_, _, _)
StripLineComments(s, i, inComment) ==
    IF i > Len(s) THEN <<>>
    ELSE IF s[i] = "nl" THEN <<"nl">> \o StripLineComments(s, i + 1, FALSE)
    ELSE IF inComment \/ s[i] = "//" THEN StripLineComments(s, i + 1, TRUE)
    ELSE <<s[i]>> \o StripLineComments(s, i + 1, FALSE)

read_source(content) == StripLineComments(content, 1, FALSE)

\* end (exclusive) of the longest [a-zA-Z_][a-zA-Z0-9_]* starting at i, or i
RECURSIVE WordRunEnd(_, _)
WordRunEnd(s, i) ==
    IF i <= Len(s) /\ IsWord(s[i]) THEN WordRunEnd(s, i + 1) ELSE i

IdentEnd(s, i) ==
    IF i <= Len(s) /\ IsWord(s[i]) /\ s[i] # "1" THEN WordRunEnd(s, i) ELSE i

\* name(\s*,\s*name)* from i: <<names, index after the last name>>
RECURSIVE NameList(_, _, _)
NameList(s, i, acc) ==
    LET e == IdentEnd(s, i)
        c == SkipSpace(s, e)
        n == IF c <= Len(s) /\ s[c] = "," THEN SkipSpace(s, c + 1) ELSE 0
    IN  IF e = i THEN <<acc, 0>>
        ELSE IF n # 0 /\ IdentEnd(s, n) # n
             THEN NameList(s, n, Append(acc, SubSeq(s, i, e - 1)))
             ELSE <<Append(acc, SubSeq(s, i, e - 1)), e>>

\* VAR_PATTERN.search(line): <<type, names>> or NoValue
VarPatternSearch(line) ==
    LET t == SkipSpace(line, 1)
    IN  IF ~(t <= Len(line) /\ line[t] \in TypeAtoms) THEN NoValue
        ELSE LET k  == SkipSpace(line, t + 1)
                 nl == NameList(line, k, <<>>)
                 z  == SkipSpace(line, nl[2])
             IN  IF /\ k > t + 1
                    /\ nl[2] # 0
                    /\ z <= Len(line)
                    /\ line[z] \in {";", "="}
                 THEN <<line[t], nl[1]>> ELSE NoValue

\* the Variable entries of one line
LineVariables(line, line_num) ==
    LET m == VarPatternSearch(line)
    IN  IF m = NoValue THEN <<>>
        ELSE [j \in 1..Len(m[2]) |->
                 [name |-> m[2][j], type |-> m[1], line |-> line_num]]

\* extract_variables(None): range(start_line - 1, ...) with start_line = 0
\* begins at index -1, the last line, reported as line 0
extract_variables(content) ==
    LET ls == SplitLines(read_source(content))
    IN  LineVariables(ls[Len(ls)], 0)
            \o Flatten([i \in 1..Len(ls) |-> LineVariables(ls[i], i)])

\* all_variables = [v['name'] for v in manifest['variables']]
CatalogNames(text) ==
    LET vs == extract_variables(text) IN [i \in 1..Len(vs) |-> vs[i].name]

(***************************************************************************)
(* Inputs: variable names, requested lists and source texts                 *)
(***************************************************************************)
NameA == <<"a">>

NameB == <<"b">>

NameAB == <<"a", "_", "b">>

Names == {NameA, NameB, NameAB}

SeqsUpTo(S, n) == UNION {[1..k -> S] : k \in 0..n}

VarLists == SeqsUpTo(Names, MaxVarList)

\* the callers pass 'float' (02_generate_variants.py)
TargetTypes == {"F"}

SourceLines ==
    { <<"D", "sp", "a", ";">>,                               \* double a;
      <<"D", "sp", "a", ",", "sp", "b", ";">>,               \* double a, b;
      <<"D", "sp", "a", "_", "b", ";">>,                     \* double a_b;
      <<"D", "sp", "sp", "b", "sp", "=", "sp", "1", ";">>,   \* double  b = 1;
      <<"F", "sp", "b", ";">>,                               \* float b;
      <<"a", "sp", "=", "sp", "1", ";">>,                    \* a = 1;
      <<"//", "sp", "D", "sp", "b", ";">>,                   \* // double b;
      <<"(", "D", "sp", "a", ",", "sp", "D", "sp", "b", "(">> }
                                                  \* (double a, double b(

LineSeqs == SeqsUpTo(SourceLines, MaxLines) \ {<<>>}

\* texts with and without a final newline
SourceTexts ==
    {JoinLines(ls) : ls \in LineSeqs}
        \cup {JoinLines(ls) \o <<"nl">> : ls \in LineSeqs}

(***************************************************************************)
(* 02_generate_variants.py: generate_configs and main                       *)
(***************************************************************************)
BaselineName == <<"baseline", "_", "all", "_", "double">>

\* f'{var}_float'
SingleName(v) == v \o <<"_", "float">>

\* f'{var1}_{var2}_float'
PairName(v1, v2) == v1 \o <<"_">> \o v2 \o <<"_", "float">>

Config(n, vs) == [name |-> n, vars |-> vs]

\* [(f'{var}_float', [var]) for var in all_variables]
SingleConfigs(av) == [i \in 1..Len(av) |-> Config(SingleName(av[i]), <<av[i]>>)]

\* the pairs of itertools.combinations(av, 2) that start at position i
RECURSIVE PairsFrom(_, _, _)
PairsFrom(av, i, j) ==
    IF i >= Len(av) THEN <<>>
    ELSE IF j > Len(av) THEN PairsFrom(av, i + 1, i + 2)
    ELSE <<Config(PairName(av[i], av[j]), <<av[i], av[j]>>)>>
             \o PairsFrom(av, i, j + 1)

PairConfigs(av) == PairsFrom(av, 1, 2)

generate_configs(av, type) ==
    <<Config(BaselineName, <<>>)>>
        \o (IF type = "both" THEN SingleConfigs(av) ELSE <<>>)
        \o (IF type \in {"pairs", "both"} THEN PairConfigs(av) ELSE <<>>)

\* the configs chosen by main for a mode
ConfigsForMode(av, m, v) ==
    IF m = "single"
    THEN <<Config(BaselineName, <<>>), Config(SingleName(v), <<v>>)>>
    ELSE IF m = "pairs" THEN generate_configs(av, "pairs")
    ELSE IF m = "single_and_pairs" THEN generate_configs(av, "both")
    ELSE <<Config(BaselineName, <<>>)>> \o SingleConfigs(av)

IdleMut ==
    /\ source_code = NoValue
    /\ modified_code = NoValue
    /\ change_args = NoValue
    /\ change_ret = NoValue
    /\ verify_args = NoValue
    /\ verify_ret = NoValue
    /\ last_call = "idle"

IdleGen ==
    /\ original_source = NoValue
    /\ all_variables = <<>>
    /\ mode = "none"
    /\ variable = NoValue
    /\ configs = <<>>
    /\ variants = <<>>
    /\ files = <<>>
    /\ printed = <<>>
    /\ variant_manifest = NoRecord
    /\ gen_pc = "idle"

\* main up to the loop: the catalog is the one extracted from the source
\* by 01_analyze_source.py; --variable is required in single mode
GenStart(sources, modes) ==
    /\ original_source \in sources
    /\ all_variables = CatalogNames(original_source)
    /\ mode \in modes
    /\ variable \in (IF mode = "single" THEN Names ELSE {NoValue})
    /\ configs = <<>>
    /\ variants = <<>>
    /\ files = <<>>
    /\ printed = <<>>
    /\ variant_manifest = NoRecord
    /\ gen_pc = "start"

\* main lines 65-90: choose the configurations, or exit(1) when the
\* requested variable is not in the catalog
GenSelectConfigs ==
    /\ gen_pc = "start"
    /\ IF mode = "single" /\ variable \notin Range(all_variables)
       THEN /\ gen_pc' = "exit1"
            /\ UNCHANGED configs
       ELSE /\ gen_pc' = "loop"
            /\ configs' = ConfigsForMode(all_variables, mode, variable)
    /\ UNCHANGED <<spec, mvars, original_source, all_variables, mode,
                   variable, variants, files, printed, variant_manifest>>
    /\ UNCHANGED <<cvars, vvars, svars, rvars>>

\* one iteration of the loop over configs: mutate, write, verify, append
GenCreateVariant ==
    /\ gen_pc = "loop"
    /\ Len(variants) < Len(configs)
    /\ LET c   == configs[Len(variants) + 1]
           ret == change_variable_types(original_source, c.vars, "F")
           mc  == ModifiedCodeAfterChange(original_source, original_source,
                                          c.vars, "F")
           ver == verify_modifications(mc, c.vars, "F")
       IN  /\ files' = (c.name :> ret) @@ files
           /\ printed' = Append(printed,
                  [name |-> c.name, success |-> ver[1], failed |-> ver[2]])
           /\ variants' = Append(variants,
                  [id |-> Len(variants), name |-> c.name,
                   modified_vars |-> c.vars, source_path |-> c.name,
                   variant_dir |-> c.name])
    /\ UNCHANGED <<spec, mvars, original_source, all_variables, mode,
                   variable, configs, variant_manifest, gen_pc>>
    /\ UNCHANGED <<cvars, vvars, svars, rvars>>

\* main lines 127-135: write manifest.json
GenSaveManifest ==
    /\ gen_pc = "loop"
    /\ Len(variants) = Len(configs)
    /\ variant_manifest' = [mode |-> mode, total_variants |-> Len(variants),
                            variants |-> variants]
    /\ gen_pc' = "done"
    /\ UNCHANGED <<spec, mvars, original_source, all_variables, mode,
                   variable, configs, variants, files, printed>>
    /\ UNCHANGED <<cvars, vvars, svars, rvars>>

(***************************************************************************)
(* utils/compiler.py: VerificarloCompiler.compile                           *)
(***************************************************************************)
\* What the compiler process does in one subprocess.run call:
\*   kind "exit": it ends with returncode and stderr, having written the
\*                output file, removed it, or left the path as it was;
\*   kind "timeout": subprocess.TimeoutExpired;  kind "error": another
\*                exception of subprocess.run.
ExitOutcome(rc, art, err) ==
    [kind |-> "exit", returncode |-> rc, artifact |-> art, stderr |-> err]

TimeoutOutcome ==
    [kind |-> "timeout", returncode |-> -1, artifact |-> "kept", stderr |-> ""]

ErrorOutcome ==
    [kind |-> "error", returncode |-> -1, artifact |-> "kept", stderr |-> ""]

\* config.output_path.exists() after the call
ExistsAfter(path, o, d) ==
    IF o.artifact = "written" THEN TRUE
    ELSE IF o.artifact = "removed" THEN FALSE
    ELSE path \in d

DiskAfter(path, o, d) ==
    IF ExistsAfter(path, o, d) THEN d \cup {path} ELSE d \ {path}

CompilationResult(ok, bp, rc, out, err, msg) ==
    [success |-> ok, binary_path |-> bp, returncode |-> rc, stdout |-> out,
     stderr |-> err, compile_time |-> "t", error_message |-> msg]

\* compile judged by the exit status alone
CompileExitStatusOnly(path, o, d) ==
    IF o.kind = "exit" /\ o.returncode = 0
    THEN CompilationResult(TRUE, path, o.returncode, <<>>, o.stderr, "None")
    ELSE CompilationResult(FALSE, NoValue, o.returncode, <<>>, o.stderr,
                           "failed")

\* the CompilationResult returned by compile(config), as to_dict() gives it
compile(path, o, d) ==
    IF o.kind = "timeout"
    THEN CompilationResult(FALSE, NoValue, -1, <<>>, "",
                           "Compilation timeout")
    ELSE IF o.kind = "error"
    THEN CompilationResult(FALSE, NoValue, -1, <<>>, "", "str(e)")
    ELSE IF o.returncode = 0 /\ ExistsAfter(path, o, d)
    THEN CompilationResult(TRUE, path, o.returncode, <<>>, o.stderr, "None")
    ELSE CompilationResult(FALSE, NoValue, o.returncode, <<>>, o.stderr,
             IF o.stderr # "" THEN o.stderr ELSE "Binary not created")

\* archimedes_analyzer.py compile_with_flags: True, False, or "raises" when
\* subprocess.run fails with something other than a timeout
compile_with_flags(path, o, d) ==
    IF o.kind = "timeout" THEN "False"
    ELSE IF o.kind = "error" THEN "raises"
    ELSE IF o.returncode # 0 THEN "False"
    ELSE IF ~ExistsAfter(path, o, d) THEN "False"
    ELSE "True"

(***************************************************************************)
(* 03_compile_variants.py main                                              *)
(***************************************************************************)
OPT_LEVELS == <<"O0", "O1", "O2", "O3">>

FASTMATH_OPTIONS == <<FALSE, TRUE>>

Min(x, y) == IF x < y THEN x ELSE y

\* the cells compiled for one variant: the first ones, in loop order, of
\* the len(OPT_LEVELS) * len(FASTMATH_OPTIONS) cells of the two inner loops
CellsPerVariant == Min(MaxCells, Len(OPT_LEVELS) * Len(FASTMATH_OPTIONS))

FastmathStr(fm) == IF fm THEN "fastmath" ELSE "nofastmath"

\* f"{variant_name}_{opt_level}_{fastmath_str}"
ConfigId(name, opt, fm) == name \o <<"_", opt, "_", FastmathStr(fm)>>

\* output_dir / variant_name / opt_level / fastmath_str / 'binary'
BinaryPath(name, opt, fm) == <<name, opt, FastmathStr(fm)>>

\* the k-th cell (from 0) of the three nested loops
CellOf(vm, k) ==
    LET v == vm.variants[(k \div CellsPerVariant) + 1]
        r == k % CellsPerVariant
    IN  [variant |-> v,
         opt_level |-> OPT_LEVELS[(r \div Len(FASTMATH_OPTIONS)) + 1],
         fastmath |-> FASTMATH_OPTIONS[(r % Len(FASTMATH_OPTIONS)) + 1]]

TotalConfigs(vm) == vm.total_variants * CellsPerVariant

\* success_count: the records with result.success
success_count(seq) == Cardinality({i \in 1..Len(seq) : seq[i].success})

\* one pass of the innermost loop body: compile the cell, append its record
CompileCell(outcomes) ==
    /\ variant_manifest # NoRecord
    /\ compilation_manifest = NoRecord
    /\ Len(compilation_results) < TotalConfigs(variant_manifest)
    /\ \E o \in outcomes :
        LET c      == CellOf(variant_manifest, Len(compilation_results))
            path   == BinaryPath(c.variant.name, c.opt_level, c.fastmath)
            result == compile(path, o, disk)
        IN  /\ disk' = DiskAfter(path, o, disk)
            /\ compile_log' = Append(compile_log,
                   [outcome |-> o, path |-> path,
                    exists_after |-> ExistsAfter(path, o, disk)])
            /\ compilation_results' = Append(compilation_results,
                   result @@
                   [variant_name |-> c.variant.name,
                    variant_id |-> c.variant.id,
                    modified_vars |-> c.variant.modified_vars,
                    opt_level |-> c.opt_level,
                    fastmath |-> c.fastmath,
                    config_id |-> ConfigId(c.variant.name, c.opt_level,
                                           c.fastmath),
                    binary_dir |-> path])
    /\ UNCHANGED <<spec, mvars, gvars, flags_call, compilation_manifest,
                   vvars, svars, rvars>>

\* main lines 101-110: write the compilation manifest
CompileSaveManifest ==
    /\ variant_manifest # NoRecord
    /\ compilation_manifest = NoRecord
    /\ Len(compilation_results) = TotalConfigs(variant_manifest)
    /\ LET ok == success_count(compilation_results)
       IN  compilation_manifest' =
               [total_compilations |-> TotalConfigs(variant_manifest),
                successful |-> ok,
                failed |-> TotalConfigs(variant_manifest) - ok,
                compilations |-> compilation_results]
    /\ UNCHANGED <<spec, mvars, gvars, disk, compilation_results, compile_log,
                   flags_call, vvars, svars, rvars>>

\* archimedes_analyzer.py: one compile_with_flags call on an output path
CompileWithFlags(outcomes) ==
    /\ compilation_manifest # NoRecord
    /\ flags_call = NoRecord
    /\ \E o \in outcomes, i \in 1..Len(compile_log) :
        LET path == compile_log[i].path
        IN  /\ disk' = DiskAfter(path, o, disk)
            /\ flags_call' =
                   [outcome |-> o, path |-> path,
                    exists_after |-> ExistsAfter(path, o, disk),
                    result |-> compile_with_flags(path, o, disk)]
    /\ UNCHANGED <<spec, mvars, gvars, compilation_results, compile_log,
                   compilation_manifest, vvars, svars, rvars>>

(***************************************************************************)
(* 04_validate_outputs.py: run_binary, check_validity, main                 *)
(***************************************************************************)
\* What one run of the binary does: kind "exit" with the text of its
\* standard output, or "timeout" / "error" for an exception of
\* subprocess.run.  The text is a sequence of atoms: a number written out
\* ("1.5"), "nan", "inf", "-inf", a word that is no number ("abc"), "sp"
\* for a blank and "nl" for a newline.
Exited(text) == [kind |-> "exit", stdout |-> text]

RunTimeout == [kind |-> "timeout", stdout |-> <<>>]

RunError == [kind |-> "error", stdout |-> <<>>]

\* the cell was not run (its compilation had failed)
NotRun == [kind |-> "not run", stdout |-> <<>>]

\* str.strip()
RECURSIVE LStrip(_)
LStrip(s) == IF s # <<>> /\ IsSpace(Head(s)) THEN LStrip(Tail(s)) ELSE s

RECURSIVE RStrip(_)
RStrip(s) ==
    IF s # <<>> /\ IsSpace(s[Len(s)])
    THEN RStrip(SubSeq(s, 1, Len(s) - 1)) ELSE s

Strip(s) == RStrip(LStrip(s))

\* the finite numbers written in the texts of the model
Numerals == {"1.5", "0", "1.00", "1.02", "-1.00", "4000", "4040", "10000"}

\* float(line): the value, or "ValueError"
ParseFloat(line) ==
    LET t == Strip(line)
    IN  IF Len(t) = 1 /\ t[1] \in Numerals \cup {"nan", "inf", "-inf"}
        THEN t[1] ELSE "ValueError"

\* run_binary returning as if the last line were taken from the raw text
RunBinaryNoStrip(o) ==
    IF o.kind = "timeout" THEN <<FALSE, "None", <<>>, "Timeout">>
    ELSE IF o.kind = "error" THEN <<FALSE, "None", <<>>, "str(e)">>
    ELSE LET lines == SplitLines(o.stdout)
             last  == lines[Len(lines)]
         IN  IF last = <<>> \/ ParseFloat(last) = "ValueError"
             THEN <<FALSE, "None", o.stdout, "errout">>
             ELSE <<TRUE, ParseFloat(last), o.stdout, "errout">>

\* (success, value, stdout, stderr)
run_binary(o) ==
    IF o.kind = "timeout" THEN <<FALSE, "None", <<>>, "Timeout">>
    ELSE IF o.kind = "error" THEN <<FALSE, "None", <<>>, "str(e)">>
    ELSE LET lines == SplitLines(Strip(o.stdout))
             last  == lines[Len(lines)]
         IN  IF last = <<>> \/ ParseFloat(last) = "ValueError"
             THEN <<FALSE, "None", o.stdout, "errout">>
             ELSE <<TRUE, ParseFloat(last), o.stdout, "errout">>

\* (is_valid, reason)
check_validity(value) ==
    IF value = "nan" THEN <<FALSE, "NaN">>
    ELSE IF value \in {"inf", "-inf"} THEN <<FALSE, "Inf">>
    ELSE <<TRUE, "valid">>

\* standard outputs used where only the class of the result matters
FiniteOut == <<"1.5", "nl">>

NaNOut == <<"nan", "nl">>

InfOut == <<"inf", "nl">>

TextOut == <<"abc", "nl">>

\* the execution_failed branch written without its skip flag set
ValidationRecordExecFailedNotSkipped(compilation, o) ==
    IF ~compilation.success
    THEN [validation_status |-> "skipped_compilation_failed",
          valid |-> FALSE, skip_ddebug |-> TRUE] @@ compilation
    ELSE LET run == run_binary(o)
             chk == check_validity(run[2])
         IN  IF ~run[1]
             THEN [validation_status |-> "execution_failed",
                   valid |-> FALSE, skip_ddebug |-> FALSE,
                   output_value |-> "None",
                   stdout |-> run[3], stderr |-> run[4]] @@ compilation
             ELSE [validation_status |-> "completed",
                   valid |-> chk[1], skip_ddebug |-> ~chk[1],
                   output_value |-> run[2], validity_reason |-> chk[2],
                   stdout |-> run[3], stderr |-> run[4]] @@ compilation

\* the record appended for one compilation record
ValidationRecord(compilation, o) ==
    IF ~compilation.success
    THEN [validation_status |-> "skipped_compilation_failed",
          valid |-> FALSE, skip_ddebug |-> TRUE] @@ compilation
    ELSE LET run == run_binary(o)
             chk == check_validity(run[2])
         IN  IF ~run[1]
             THEN [validation_status |-> "execution_failed",
                   valid |-> FALSE, skip_ddebug |-> TRUE,
                   output_value |-> "None",
                   stdout |-> run[3], stderr |-> run[4]] @@ compilation
             ELSE [validation_status |-> "completed",
                   valid |-> chk[1], skip_ddebug |-> ~chk[1],
                   output_value |-> run[2], validity_reason |-> chk[2],
                   stdout |-> run[3], stderr |-> run[4]] @@ compilation

\* the loop iteration counting every record that is not valid as invalid
ValidateCellCountingSkipped(outcomes) ==
    /\ compilation_manifest # NoRecord
    /\ validation_manifest = NoRecord
    /\ Len(validation_results) < Len(compilation_manifest.compilations)
    /\ LET compilation ==
               compilation_manifest.compilations[Len(validation_results) + 1]
       IN  \E o \in (IF compilation.success THEN outcomes ELSE {NotRun}) :
               LET rec == ValidationRecord(compilation, o)
               IN  /\ validation_results' = Append(validation_results, rec)
                   /\ run_log' = Append(run_log, o)
                   /\ valid_count' =
                          IF rec.valid THEN valid_count + 1 ELSE valid_count
                   /\ invalid_count' =
                          IF ~rec.valid
                          THEN invalid_count + 1 ELSE invalid_count
    /\ UNCHANGED <<spec, mvars, gvars, cvars, validation_manifest, svars,
                   rvars>>

\* one iteration of the loop over compilation_manifest['compilations']
ValidateCell(outcomes) ==
    /\ compilation_manifest # NoRecord
    /\ validation_manifest = NoRecord
    /\ Len(validation_results) < Len(compilation_manifest.compilations)
    /\ LET compilation ==
               compilation_manifest.compilations[Len(validation_results) + 1]
       IN  \E o \in (IF compilation.success THEN outcomes ELSE {NotRun}) :
               LET rec == ValidationRecord(compilation, o)
               IN  /\ validation_results' = Append(validation_results, rec)
                   /\ run_log' = Append(run_log, o)
                   /\ valid_count' =
                          IF rec.valid THEN valid_count + 1 ELSE valid_count
                   /\ invalid_count' =
                          IF compilation.success /\ ~rec.valid
                          THEN invalid_count + 1 ELSE invalid_count
    /\ UNCHANGED <<spec, mvars, gvars, cvars, validation_manifest, svars,
                   rvars>>

\* main lines 158-171: write the validation manifest
ValidateSaveManifest ==
    /\ compilation_manifest # NoRecord
    /\ validation_manifest = NoRecord
    /\ Len(validation_results) = Len(compilation_manifest.compilations)
    /\ validation_manifest' =
           [total_tested |-> Len(compilation_manifest.compilations),
            valid |-> valid_count,
            invalid |-> invalid_count,
            validations |-> validation_results]
    /\ UNCHANGED <<spec, mvars, gvars, cvars, validation_results, run_log,
                   valid_count, invalid_count, svars, rvars>>

(***************************************************************************)
(* 05_setup_ddebug.py main                                                  *)
(***************************************************************************)
\* v['valid'] and not v.get('skip_ddebug', False)
SetupEligible(v) == v.valid /\ ~v.skip_ddebug

valid_validations(vm) == SelectSeq(vm.validations, SetupEligible)

\* the thresholds 1e-6 and 1e-2, as the denominator D of 1/D
Threshold1e6 == 1000000
Threshold1e2 == 100

\* 1e-2 if modified_vars else 1e-6
Threshold(modified_vars) ==
    IF modified_vars # <<>> THEN Threshold1e2 ELSE Threshold1e6

\* one iteration of the loop over valid_validations
SetupCell ==
    /\ validation_manifest # NoRecord
    /\ setup_manifest = NoRecord
    /\ Len(dd_setups) < Len(valid_validations(validation_manifest))
    /\ LET v  == valid_validations(validation_manifest)[Len(dd_setups) + 1]
           ws == v.config_id
           th == Threshold(v.modified_vars)
       IN  /\ workspaces' =
                  (ws :> [ddRun |-> v.binary_path, ddCmp |-> th]) @@ workspaces
           /\ dd_setups' = Append(dd_setups,
                  [config_id |-> v.config_id,
                   variant_name |-> v.variant_name,
                   modified_vars |-> v.modified_vars,
                   opt_level |-> v.opt_level,
                   fastmath |-> v.fastmath,
                   binary_path |-> v.binary_path,
                   dd_workspace |-> ws,
                   threshold |-> th])
    /\ UNCHANGED <<spec, mvars, gvars, cvars, vvars, setup_manifest,
                   cmp_call, rvars>>

\* main lines 108-114: write the setup manifest
SetupSaveManifest ==
    /\ validation_manifest # NoRecord
    /\ setup_manifest = NoRecord
    /\ Len(dd_setups) = Len(valid_validations(validation_manifest))
    /\ setup_manifest' = [total_setups |-> Len(dd_setups),
                          setups |-> dd_setups]
    /\ UNCHANGED <<spec, mvars, gvars, cvars, vvars, dd_setups, workspaces,
                   cmp_call, rvars>>

(***************************************************************************)
(* utils/dd_parser.py find_unstable_lines and 06_run_ddebug.py              *)
(***************************************************************************)
BACKENDS == <<"rr", "mca", "cancellation">>

Backends == SubSeq(BACKENDS, 1, Min(MaxBackends, Len(BACKENDS)))

\* sorted(set)
RECURSIVE SortedSeq(_)
SortedSeq(S) ==
    IF S = {} THEN <<>>
    ELSE LET m == CHOOSE x \in S : \A y \in S : x <= y
         IN  <<m>> \o SortedSeq(S \ {m})

\* A line of a dd.line file, "address: function at file:line", field by
\* field; address, function and file are sequences of characters
DDLine(address, function, file, line) ==
    [shape |-> "record", address |-> address, function |-> function,
     file |-> file, line |-> line]

\* a line of another shape: no "file:line" at its end
OtherLine ==
    [shape |-> "other", address |-> <<>>, function |-> <<>>, file |-> <<>>,
     line |-> 0]

HexDigits == {"0", "4", "e", "5", "c"}

\* the characters of \w
WordChars == HexDigits \cup {"x", "f", "g", "_"}

\* 0x[0-9a-fA-F]+
IsHexLiteral(a) ==
    /\ Len(a) >= 3
    /\ a[1] = "0"
    /\ a[2] = "x"
    /\ \A i \in 3..Len(a) : a[i] \in HexDigits

\* \w+
IsWordChars(f) == Len(f) >= 1 /\ \A i \in 1..Len(f) : f[i] \in WordChars

\* [^:]+
IsFileName(f) == Len(f) >= 1 /\ \A i \in 1..Len(f) : f[i] # ":"

\* DDLineResult.from_line(line): the parsed record, or NoRecord for None
from_line(l) ==
    IF /\ l.shape = "record"
       /\ IsHexLiteral(l.address)
       /\ IsWordChars(l.function)
       /\ IsFileName(l.file)
    THEN [address |-> l.address, function |-> l.function, file |-> l.file,
          line |-> l.line]
    ELSE NoRecord

\* a dd.line.include or dd.line.exclude file, and the absent file
DDFile(ls) == [exists |-> TRUE, lines |-> ls]
MissingFile == [exists |-> FALSE, lines |-> <<>>]

\* parse_dd_line_file(file_path): the lines that from_line parses
RECURSIVE ParsedLines(_)
ParsedLines(ls) ==
    IF ls = <<>> THEN <<>>
    ELSE (IF from_line(Head(ls)) = NoRecord THEN <<>>
          ELSE <<from_line(Head(ls))>>) \o ParsedLines(Tail(ls))

parse_dd_line_file(f) == IF ~f.exists THEN <<>> ELSE ParsedLines(f.lines)

\* A dd.line tree: rddmin-cmp/dd.line.exclude, the dd.line.include of
\* ddmin0, ddmin1, ... and a dd.line.exclude at the root of the tree
TreeOfFiles(excl, incl, root) ==
    [exclude |-> excl, includes |-> incl, root_exclude |-> root]

\* the line "0x4e: f at archimedes.c:n"
PlainLine(n) ==
    DDLine(<<"0", "x", "4", "e">>, <<"f">>, <<"archimedes.c">>, n)

\* the tree whose rddmin-cmp/dd.line.exclude holds plain lines for the
\* numbers excl and whose ddmin<i-1>/dd.line.include for those of incl[i]
Tree(excl, incl) ==
    TreeOfFiles(DDFile([i \in 1..Len(excl) |-> PlainLine(excl[i])]),
                [i \in 1..Len(incl) |->
                    DDFile([j \in 1..Len(incl[i]) |-> PlainLine(incl[i][j])])],
                MissingFile)

LineNumbers(results) == {results[i].line : i \in 1..Len(results)}

find_unstable_lines(tree) ==
    SortedSeq(LineNumbers(parse_dd_line_file(tree.exclude))
              \cup UNION {LineNumbers(parse_dd_line_file(tree.includes[i])) :
                             i \in 1..Len(tree.includes)})

\* What one vfc_ddebug run does: kind "exit" with a returncode, "timeout"
\* or "error"; tree is the dd.line directory it leaves (NoRecord: none)
\* says_failed: its standard output holds the word "failed"
DDOutcomeSaying(k, rc, tree, failed) ==
    [kind |-> k, returncode |-> rc, tree |-> tree, says_failed |-> failed]

DDOutcome(k, rc, tree) == DDOutcomeSaying(k, rc, tree, FALSE)

TreeOf(ws) == IF ws \in DOMAIN trees THEN trees[ws] ELSE NoRecord

\* the stale tree left where it is
TreeNotCleaned(t) == t

\* if dd_dir.exists(): shutil.rmtree(dd_dir)
TreeAfterClean(t) == IF t # NoRecord THEN NoRecord ELSE t

\* dd.line after the minimizer has run: the tree it wrote, or what was
\* there at its start when it wrote none
TreeLeftBy(start, o) == IF o.tree # NoRecord THEN o.tree ELSE start

\* run_dd without its except TimeoutExpired clause: the killed run is
\* judged like one that ended
RunDDTimeoutNotCaught(backend_name, o) ==
    IF o.kind = "error"
    THEN [backend |-> backend_name, success |-> FALSE, error |-> "str(e)"]
    ELSE IF o.tree # NoRecord
    THEN [backend |-> backend_name, success |-> TRUE,
          unstable_lines |-> find_unstable_lines(o.tree)]
    ELSE [backend |-> backend_name, success |-> FALSE, error |-> "DD failed"]

\* the record returned by run_dd
run_dd(backend_name, o) ==
    IF o.kind = "timeout"
    THEN [backend |-> backend_name, success |-> FALSE, error |-> "Timeout"]
    ELSE IF o.kind = "error"
    THEN [backend |-> backend_name, success |-> FALSE, error |-> "str(e)"]
    ELSE IF o.returncode = 0 /\ o.tree # NoRecord
    THEN [backend |-> backend_name, success |-> TRUE,
          unstable_lines |-> find_unstable_lines(o.tree)]
    ELSE IF o.tree # NoRecord
    THEN [backend |-> backend_name, success |-> TRUE,
          unstable_lines |-> find_unstable_lines(o.tree),
          note |-> "DD exited with code but produced output"]
    ELSE [backend |-> backend_name, success |-> FALSE, error |-> "DD failed"]

\* one iteration of the inner loop over BACKENDS: run_dd removes a stale
\* dd.line, runs the minimizer and builds the record; after the last
\* backend the outer loop appends the result of the setup
RunBackend(outcomes) ==
    /\ setup_manifest # NoRecord
    /\ dd_manifest = NoRecord
    /\ Len(all_results) < Len(setup_manifest.setups)
    /\ \E o \in outcomes :
        LET setup   == setup_manifest.setups[Len(all_results) + 1]
            backend == Backends[Len(dd_results) + 1]
            ws      == setup.dd_workspace
            start   == TreeAfterClean(TreeOf(ws))
            left    == TreeLeftBy(start, o)
            result  == run_dd(backend, [o EXCEPT !.tree = left])
            results == Append(dd_results, result)
        IN  /\ trees' = (ws :> left) @@ trees
            /\ invoked' = Append(invoked,
                   [workspace |-> ws, backend |-> backend,
                    tree_at_start |-> start, outcome |-> o])
            /\ IF Len(results) = Len(Backends)
               THEN /\ dd_results' = <<>>
                    /\ all_results' = Append(all_results,
                           [config_id |-> setup.config_id,
                            variant_name |-> setup.variant_name,
                            modified_vars |-> setup.modified_vars,
                            opt_level |-> setup.opt_level,
                            fastmath |-> setup.fastmath,
                            dd_results |-> results])
               ELSE /\ dd_results' = results
                    /\ UNCHANGED all_results
    /\ UNCHANGED <<spec, mvars, gvars, cvars, vvars, svars, dd_manifest,
                   experiment, parse_call, avars>>

\* main lines 117-124: write the delta-debug manifest
RunSaveManifest ==
    /\ setup_manifest # NoRecord
    /\ dd_manifest = NoRecord
    /\ Len(all_results) = Len(setup_manifest.setups)
    /\ dd_manifest' = [backends |-> Backends,
                       total_configs |-> Len(all_results),
                       results |-> all_results]
    /\ UNCHANGED <<spec, mvars, gvars, cvars, vvars, svars, trees, invoked,
                   dd_results, all_results, experiment, parse_call, avars>>

\* the state of the stages before any of them has run; disks: binaries
\* left on disk by an earlier run, stale: dd.line trees left by one
StagesStartOn(disks, stale) ==
    /\ disk \in (IF disks = {} THEN {{}} ELSE disks)
    /\ compilation_results = <<>>
    /\ compile_log = <<>>
    /\ flags_call = NoRecord
    /\ compilation_manifest = NoRecord
    /\ validation_results = <<>>
    /\ run_log = <<>>
    /\ valid_count = 0
    /\ invalid_count = 0
    /\ validation_manifest = NoRecord
    /\ dd_setups = <<>>
    /\ workspaces = <<>>
    /\ setup_manifest = NoRecord
    /\ cmp_call = NoRecord
    /\ trees \in stale
    /\ invoked = <<>>
    /\ dd_results = <<>>
    /\ all_results = <<>>
    /\ dd_manifest = NoRecord
    /\ experiment = NoRecord
    /\ parse_call = NoRecord
    /\ analysis = NoRecord
    /\ scope_call = NoRecord
    /\ batch = NoRecord

StagesStart(disks) == StagesStartOn(disks, {<<>>})

(***************************************************************************)
(* The staged scripts of soc/scripts: 02 -> 03 -> 04 -> 05 -> 06            *)
(***************************************************************************)
\* argparse choices of soc/scripts/02_generate_variants.py
StagedModes == {"single", "all"}

\* double a;\n  |  double a, b;\n  |  double a;   (no final newline)
PipeSources ==
    { <<"D", "sp", "a", ";", "nl">>,
      <<"D", "sp", "a", ",", "sp", "b", ";", "nl">>,
      <<"D", "sp", "a", ";">> }

\* compiler runs of the staged pipeline: success, or a reported error
PipeCompileOutcomes ==
    {ExitOutcome(0, "written", ""), ExitOutcome(1, "kept", "err")}

PipeRunOutcomes == {Exited(FiniteOut), Exited(NaNOut), RunTimeout}

Tree1617 == Tree(<<16, 17>>, <<>>)

PipeDDOutcomes ==
    {DDOutcome("exit", 0, Tree1617), DDOutcome("exit", 1, NoRecord)}

InitPipe ==
    /\ spec = "pipe"
    /\ IdleMut
    /\ GenStart(PipeSources, StagedModes)
    /\ StagesStart({})

NextPipe ==
    \/ GenSelectConfigs
    \/ GenCreateVariant
    \/ GenSaveManifest
    \/ CompileCell(PipeCompileOutcomes)
    \/ CompileSaveManifest
    \/ ValidateCell(PipeRunOutcomes)
    \/ ValidateSaveManifest
    \/ SetupCell
    \/ SetupSaveManifest
    \/ RunBackend(PipeDDOutcomes)
    \/ RunSaveManifest

SpecPipe == InitPipe /\ [][NextPipe]_vars

\* C1: a cell whose validation record has valid=false gets no setup entry,
\* the minimizer is never invoked in its workspace, and its config_id is
\* not among the results of the delta-debug manifest.
C1_InvalidCellNeverLocalized ==
    \A i \in 1..Len(validation_results) :
        ~validation_results[i].valid =>
            LET id == validation_results[i].config_id
            IN  /\ \A k \in 1..Len(dd_setups) : dd_setups[k].config_id # id
                /\ \A k \in 1..Len(invoked) : invoked[k].workspace # id
                /\ \A k \in 1..Len(all_results) :
                       all_results[k].config_id # id

\* C2: a configuration for which verify reported a variable as not changed
\* has no entry in the variants manifest and none of its cells is compiled.
C2_FailedVerificationNotCompiled ==
    \A k \in 1..Len(printed) :
        ~printed[k].success =>
            /\ variant_manifest # NoRecord =>
                   \A j \in 1..Len(variant_manifest.variants) :
                       variant_manifest.variants[j].id # k - 1
            /\ \A j \in 1..Len(compilation_results) :
                   compilation_results[j].variant_id # k - 1

(***************************************************************************)
(* SpecVal: 02 -> 03 -> 04 with every outcome of running a binary           *)
(***************************************************************************)
ValRunOutcomes ==
    {Exited(FiniteOut), Exited(NaNOut), Exited(InfOut), Exited(TextOut),
     RunTimeout}

InitVal ==
    /\ spec = "val"
    /\ IdleMut
    /\ GenStart(PipeSources, StagedModes)
    /\ StagesStart({})

NextVal ==
    \/ GenSelectConfigs
    \/ GenCreateVariant
    \/ GenSaveManifest
    \/ CompileCell(PipeCompileOutcomes)
    \/ CompileSaveManifest
    \/ ValidateCell(ValRunOutcomes)
    \/ ValidateSaveManifest

SpecVal == InitVal /\ [][NextVal]_vars

\* C3: every validation record has skip_ddebug = not valid, on every
\* branch (compilation failed, execution failed, NaN, Inf, finite output),
\* in the list being built and in the manifest written.
C3_InvalidImpliesSkip ==
    /\ \A i \in 1..Len(validation_results) :
           validation_results[i].skip_ddebug = ~validation_results[i].valid
    /\ validation_manifest # NoRecord =>
           \A i \in 1..Len(validation_manifest.validations) :
               validation_manifest.validations[i].skip_ddebug
                   = ~validation_manifest.validations[i].valid

\* a manifest with a record of a failed compilation, one of a failed
\* execution and one of a non-finite output
C3_Witness ==
    /\ validation_manifest # NoRecord
    /\ \E i, j, k \in 1..Len(validation_manifest.validations) :
        LET v == validation_manifest.validations
        IN  /\ v[i].validation_status = "skipped_compilation_failed"
            /\ v[j].validation_status = "execution_failed"
            /\ v[k].validation_status = "completed"
            /\ ~v[k].valid
            /\ v[i].skip_ddebug /\ v[j].skip_ddebug /\ v[k].skip_ddebug

(***************************************************************************)
(* SpecCompile: 02 -> 03 with every outcome of a compiler run               *)
(***************************************************************************)
CompileOutcomes ==
    {ExitOutcome(rc, art, IF rc = 0 THEN "" ELSE "err") :
         rc \in {0, 1}, art \in {"written", "removed", "kept"}}
        \cup {TimeoutOutcome, ErrorOutcome}

CompileSources == {<<"D", "sp", "a", ";", "nl">>}

\* nothing on disk, or the baseline binary of an earlier run
CompileDisks == {{}, {BinaryPath(BaselineName, "O0", FALSE)}}

InitCompile ==
    /\ spec = "compile"
    /\ IdleMut
    /\ GenStart(CompileSources, StagedModes)
    /\ StagesStart(CompileDisks)

NextCompile ==
    \/ GenSelectConfigs
    \/ GenCreateVariant
    \/ GenSaveManifest
    \/ CompileCell(CompileOutcomes)
    \/ CompileSaveManifest
    \/ CompileWithFlags(CompileOutcomes)

SpecCompile == InitCompile /\ [][NextCompile]_vars

\* the compiler exited with status 0 and the output file exists afterwards
ExitedZeroWithArtifact(l) ==
    l.outcome.kind = "exit" /\ l.outcome.returncode = 0 /\ l.exists_after

\* C10: compile returns success=true exactly when the compiler exited with
\* status 0 and the output artifact exists after the call; binary_path is
\* set exactly when success=true.  compile_with_flags, when it returns,
\* returns True in exactly the same case.
C10_SuccessIffExitZeroAndArtifact ==
    /\ \A k \in 1..Len(compilation_results) :
           /\ compilation_results[k].success
                  = ExitedZeroWithArtifact(compile_log[k])
           /\ (compilation_results[k].binary_path # NoValue)
                  = compilation_results[k].success
    /\ (flags_call # NoRecord /\ flags_call.result # "raises") =>
           (flags_call.result = "True") = ExitedZeroWithArtifact(flags_call)

\* a compiler run that exited 0 without leaving the artifact, recorded as a
\* failure without binary_path
C10_Witness ==
    \E k \in 1..Len(compilation_results) :
        /\ compile_log[k].outcome.kind = "exit"
        /\ compile_log[k].outcome.returncode = 0
        /\ ~compile_log[k].exists_after
        /\ ~compilation_results[k].success
        /\ compilation_results[k].binary_path = NoValue

(***************************************************************************)
(* SpecVar: one run of src/scripts/02_generate_variants.py                  *)
(***************************************************************************)
AllModes == {"single", "all", "pairs", "single_and_pairs"}

InitVar ==
    /\ spec = "var"
    /\ IdleMut
    /\ GenStart(SourceTexts, AllModes)
    /\ StagesStart({})

NextVar ==
    \/ GenSelectConfigs
    \/ GenCreateVariant
    \/ GenSaveManifest

SpecVar == InitVar /\ [][NextVar]_vars

\* the catalog av listed in another order
Reorderings(av) ==
    {[i \in 1..Len(av) |-> av[p[i]]] : p \in Permutations(1..Len(av))}

\* C7: pairs mode yields exactly 1 + n*(n-1)/2 configurations for a catalog
\* of n names: the baseline first, then one configuration per unordered
\* 2-subset of the variables, and no variable set twice.
C7_PairsOncePerSubset ==
    (mode = "pairs" /\ gen_pc \in {"loop", "done"}) =>
        LET n == Len(all_variables)
        IN  /\ Len(configs) = 1 + (n * (n - 1)) \div 2
            /\ configs[1].vars = <<>>
            /\ \A i \in 2..Len(configs) :
                   /\ Cardinality(Range(configs[i].vars)) = 2
                   /\ Range(configs[i].vars) \subseteq Range(all_variables)
            /\ \A i, j \in 1..Len(configs) :
                   i # j => Range(configs[i].vars) # Range(configs[j].vars)

NoDuplicates(av) == \A i, j \in 1..Len(av) : i # j => av[i] # av[j]

\* C8: the name of a configuration depends only on its set of variable
\* names: a run over the same catalog (of distinct names) listed in another
\* order gives the same name to the same variable set.
C8_NameDependsOnSetOnly ==
    (gen_pc \in {"loop", "done"} /\ NoDuplicates(all_variables)) =>
        \A av \in Reorderings(all_variables) :
            LET other == ConfigsForMode(av, mode, variable)
            IN  \A i \in 1..Len(configs), j \in 1..Len(other) :
                    Range(configs[i].vars) = Range(other[j].vars)
                        => configs[i].name = other[j].name

\* C9: within one run no two generated configurations have the same name
\* (stated here for catalogs that list each name once).
C9_ConfigNamesUnique ==
    NoDuplicates(all_variables) =>
        \A i, j \in 1..Len(configs) :
            i # j => configs[i].name # configs[j].name

(***************************************************************************)
(* SpecMut: one SourceModifier object and the calls made on it              *)
(***************************************************************************)
\* SourceModifier.__init__
InitMut ==
    /\ spec = "mut"
    /\ source_code \in SourceTexts
    /\ modified_code = source_code
    /\ change_args = NoValue
    /\ change_ret = NoValue
    /\ verify_args = NoValue
    /\ verify_ret = NoValue
    /\ last_call = "init"
    /\ IdleGen
    /\ StagesStart({})

\* modifier.change_variable_types(vs, T), the first call on a new modifier
ChangeVariableTypes ==
    /\ spec = "mut"
    /\ last_call = "init"
    /\ \E vs \in VarLists, T \in TargetTypes :
        /\ change_args' = <<vs, T>>
        /\ change_ret' = change_variable_types(source_code, vs, T)
        /\ modified_code' =
               ModifiedCodeAfterChange(modified_code, source_code, vs, T)
    /\ verify_args' = NoValue
    /\ verify_ret' = NoValue
    /\ last_call' = "change"
    /\ UNCHANGED <<spec, source_code, gvars, cvars, vvars, svars, rvars>>

\* modifier.verify_modifications(vs, T), once per modifier
VerifyModifications ==
    /\ spec = "mut"
    /\ last_call \in {"init", "change"}
    /\ \E vs \in VarLists, T \in TargetTypes :
        /\ verify_args' = <<vs, T>>
        /\ verify_ret' = verify_modifications(modified_code, vs, T)
    /\ last_call' = "verify"
    /\ UNCHANGED <<spec, source_code, modified_code, change_args, change_ret,
                   gvars, cvars, vvars, svars, rvars>>

NextMut == ChangeVariableTypes \/ VerifyModifications

SpecMut == InitMut /\ [][NextMut]_vars

\* C4: change_variable_types(vs, T) followed by verify_modifications(vs, T)
\* on the same modifier, for a non-empty list vs of catalog variables,
\* returns (True, []).
C4_MutateThenVerifySucceeds ==
    ( /\ last_call = "verify"
      /\ change_args # NoValue
      /\ verify_args = change_args
      /\ change_args[1] # <<>>
      /\ Range(change_args[1]) \subseteq Range(CatalogNames(source_code)) )
    => verify_ret = <<TRUE, <<>>>>

\* C5: change_variable_types(V, T) leaves the declared type of every
\* catalog variable outside V as it was.
C5_OtherDeclarationsUnchanged ==
    change_args # NoValue =>
        LET before == extract_variables(source_code)
            after  == extract_variables(change_ret)
        IN  \A i \in 1..Len(before) :
                before[i].name \notin Range(change_args[1]) =>
                    /\ i <= Len(after)
                    /\ after[i] = before[i]

\* C6: change_variable_types([], T) returns the source text unchanged,
\* atom for atom.
C6_EmptyListIsIdentity ==
    (change_args # NoValue /\ change_args[1] = <<>>) =>
        change_ret = source_code

\* the empty list was passed for a text that declares a variable and ends
\* in a newline
C6_Witness ==
    /\ change_args # NoValue
    /\ change_args[1] = <<>>
    /\ extract_variables(source_code) # <<>>
    /\ source_code[Len(source_code)] = "nl"
    /\ change_ret = source_code

(***************************************************************************)
(* SpecTimeout: 02 -> 06 where each external process may time out.  Every   *)
(* script runs its loops to the end and every subprocess.run call is        *)
(* bounded by its timeout, hence the weak fairness on the next step.        *)
(***************************************************************************)
\* a = 1;\n (no variable: the baseline cells only)
TimeoutSources == {<<"a", "sp", "=", "sp", "1", ";", "nl">>}

TimeoutCompileOutcomes ==
    {ExitOutcome(0, "written", ""), ExitOutcome(0, "none", ""),
     ExitOutcome(1, "none", "err"), ExitOutcome(1, "removed", "err"),
     TimeoutOutcome, ErrorOutcome}

TimeoutRunOutcomes ==
    {Exited(FiniteOut), Exited(NaNOut), Exited(InfOut), Exited(TextOut),
     RunTimeout}

\* the minimizer ends normally, or is killed having started its tree
TimeoutDDOutcomes ==
    {DDOutcome("exit", 0, Tree1617), DDOutcome("timeout", -1, Tree1617)}

InitTimeout ==
    /\ spec = "timeout"
    /\ IdleMut
    /\ GenStart(TimeoutSources, StagedModes)
    /\ StagesStart(CompileDisks)

NextTimeout ==
    \/ GenSelectConfigs
    \/ GenCreateVariant
    \/ GenSaveManifest
    \/ CompileCell(TimeoutCompileOutcomes)
    \/ CompileSaveManifest
    \/ ValidateCell(TimeoutRunOutcomes)
    \/ ValidateSaveManifest
    \/ SetupCell
    \/ SetupSaveManifest
    \/ RunBackend(TimeoutDDOutcomes)
    \/ RunSaveManifest

SpecTimeout ==
    InitTimeout /\ [][NextTimeout]_vars /\ WF_vars(NextTimeout)

\* the backend record built by the n-th vfc_ddebug invocation
DDRecordOf(n) ==
    LET c == (n - 1) \div Len(Backends)
        b == ((n - 1) % Len(Backends)) + 1
    IN  IF c < Len(all_results) THEN all_results[c + 1].dd_results[b]
        ELSE dd_results[b]

CompileTimedOut ==
    \E k \in 1..Len(compile_log) : compile_log[k].outcome.kind = "timeout"

RunTimedOut == \E i \in 1..Len(run_log) : run_log[i].kind = "timeout"

DDTimedOut ==
    \E n \in 1..Len(invoked) : invoked[n].outcome.kind = "timeout"

TimeoutsAreFailureRecords ==
    /\ \A k \in 1..Len(compilation_results) :
           compile_log[k].outcome.kind = "timeout" =>
               /\ ~compilation_results[k].success
               /\ compilation_results[k].error_message
                      = "Compilation timeout"
    /\ \A i \in 1..Len(validation_results) :
           run_log[i].kind = "timeout" =>
               /\ ~validation_results[i].valid
               /\ validation_results[i].validation_status
                      = "execution_failed"
               /\ validation_results[i].stderr = "Timeout"
    /\ \A n \in 1..Len(invoked) :
           invoked[n].outcome.kind = "timeout" =>
               /\ ~DDRecordOf(n).success
               /\ DDRecordOf(n).error = "Timeout"

CompileStageComplete ==
    /\ compilation_manifest # NoRecord
    /\ Len(compilation_manifest.compilations)
           = TotalConfigs(variant_manifest)

ValidateStageComplete ==
    /\ validation_manifest # NoRecord
    /\ Len(validation_manifest.validations)
           = Len(compilation_manifest.compilations)

RunStageComplete ==
    /\ dd_manifest # NoRecord
    /\ Len(dd_manifest.results) = Len(setup_manifest.setups)
    /\ \A k \in 1..Len(dd_manifest.results) :
           Len(dd_manifest.results[k].dd_results) = Len(Backends)

ClassifySources == {<<"a", "sp", "=", "sp", "1", ";", "nl">>}

ClassifyCompileOutcomes == {ExitOutcome(0, "written", "")}

\* lines of output: 1.5 | nan | inf | -inf | abc | an empty line | " 1.5 "
OutLines ==
    {<<"1.5">>, <<"nan">>, <<"inf">>, <<"-inf">>, <<"abc">>, <<>>,
     <<"sp", "1.5", "sp">>}

\* outputs of up to MaxOutLines lines, with and without a final newline
StdoutTexts ==
    {JoinLines(ls) : ls \in SeqsUpTo(OutLines, MaxOutLines)}
        \cup {JoinLines(ls) \o <<"nl">> :
                  ls \in SeqsUpTo(OutLines, MaxOutLines)}

ClassifyRunOutcomes == {Exited(t) : t \in StdoutTexts} \cup {RunTimeout}

InitClassify ==
    /\ spec = "classify"
    /\ IdleMut
    /\ GenStart(ClassifySources, StagedModes)
    /\ StagesStart({})

NextClassify ==
    \/ GenSelectConfigs
    \/ GenCreateVariant
    \/ GenSaveManifest
    \/ CompileCell(ClassifyCompileOutcomes)
    \/ CompileSaveManifest
    \/ ValidateCell(ClassifyRunOutcomes)
    \/ ValidateSaveManifest

SpecClassify == InitClassify /\ [][NextClassify]_vars

\* the lines of a text: each ends at a newline, the last one may lack it
TextLines(text) == SplitLinesKeepends(text)

\* what is written on a line, blanks left out
Tokens(line) == SelectSeq(line, LAMBDA c : c # "sp")

LastLine(text) ==
    IF TextLines(text) = <<>> THEN <<>>
    ELSE TextLines(text)[Len(TextLines(text))]

\* the last line that has something written on it, <<>> if there is none
LastNonBlankLine(text) ==
    LET ls  == TextLines(text)
        idx == {k \in 1..Len(ls) : Tokens(ls[k]) # <<>>}
    IN  IF idx = {} THEN <<>>
        ELSE ls[CHOOSE k \in idx : \A j \in idx : j <= k]

ExecutionFailed(rec) ==
    /\ rec.validation_status = "execution_failed"
    /\ ~rec.valid
    /\ rec.output_value = "None"

\* the record is the one the contract gives for this line
ClassifiedBy(rec, line) ==
    LET t == Tokens(line)
    IN  IF t = <<"nan">>
        THEN /\ rec.validation_status = "completed"
             /\ ~rec.valid
             /\ rec.validity_reason = "NaN"
        ELSE IF t \in {<<"inf">>, <<"-inf">>}
        THEN /\ rec.validation_status = "completed"
             /\ ~rec.valid
             /\ rec.validity_reason = "Inf"
        ELSE IF t = <<"1.5">>
        THEN /\ rec.validation_status = "completed"
             /\ rec.valid
             /\ rec.validity_reason = "valid"
        ELSE ExecutionFailed(rec)

\* C12 (as stated): a cell is classified by the last line of the standard
\* output: NaN, Inf, valid for a finite number, and execution_failed with
\* no output value for an empty or non-numeric last line or a timeout.
C12_ClassifiedByLastLine ==
    \A i \in 1..Len(validation_results) :
        run_log[i].kind # "not run" =>
            IF run_log[i].kind = "timeout"
            THEN ExecutionFailed(validation_results[i])
            ELSE ClassifiedBy(validation_results[i],
                              LastLine(run_log[i].stdout))

\* C12 (amended): a cell is classified by the last line of the standard
\* output that is not blank; execution_failed when no line has anything
\* written on it, when that line is no number, and on a timeout.
C12_ClassifiedByLastNonBlankLine ==
    \A i \in 1..Len(validation_results) :
        run_log[i].kind # "not run" =>
            IF run_log[i].kind = "timeout"
            THEN ExecutionFailed(validation_results[i])
            ELSE ClassifiedBy(validation_results[i],
                              LastNonBlankLine(run_log[i].stdout))

\* nan followed by an empty line: recorded as NaN, not as a failed execution
C12_Witness ==
    \E i \in 1..Len(validation_results) :
        /\ run_log[i] = Exited(<<"nan", "nl", "nl">>)
        /\ validation_results[i].validation_status = "completed"
        /\ validation_results[i].validity_reason = "NaN"


\* ---------------------------------------------------------------------
\* The generated compare script ddCmp
\* (soc/scripts/05_setup_ddebug.py create_ddcmp_script and
\* archimedes_analyzer.py run_delta_debug)
\* ---------------------------------------------------------------------

\* Numbers are counted in units of 0.01; a double is finite up to
\* MaxDouble units, beyond which an operation gives an infinity.
MaxDouble == 1000000

Fin(v) == [k |-> "fin", v |-> v]
Inf(s) == [k |-> "inf", v |-> s]
NaN == [k |-> "nan", v |-> 0]

Abs(n) == IF n < 0 THEN -n ELSE n
Sign(n) == IF n < 0 THEN -1 ELSE 1

\* the value of a numeral, in units
Units(tok) ==
    CASE tok = "0" -> 0
      [] tok = "1.00" -> 100
      [] tok = "1.02" -> 102
      [] tok = "-1.00" -> -100
      [] tok = "1.5" -> 150
      [] tok = "4000" -> 400000
      [] tok = "4040" -> 404000
      [] tok = "10000" -> 1000000

\* the double that float() returns for a parsed token
FloatOf(tok) ==
    CASE tok = "nan" -> NaN
      [] tok = "inf" -> Inf(1)
      [] tok = "-inf" -> Inf(-1)
      [] OTHER -> Fin(Units(tok))

\* IEEE 754 operations on these doubles
FRound(n) ==
    IF n > MaxDouble THEN Inf(1)
    ELSE IF n < -MaxDouble THEN Inf(-1) ELSE Fin(n)

FAdd(a, b) ==
    IF a.k = "nan" \/ b.k = "nan" THEN NaN
    ELSE IF a.k = "inf" /\ b.k = "inf"
         THEN IF a.v = b.v THEN a ELSE NaN
    ELSE IF a.k = "inf" THEN a
    ELSE IF b.k = "inf" THEN b
    ELSE FRound(a.v + b.v)

FNeg(a) == IF a.k = "nan" THEN NaN ELSE [k |-> a.k, v |-> -a.v]

FSub(a, b) == FAdd(a, FNeg(b))

FHalf(a) == IF a.k = "fin" THEN Fin(a.v \div 2) ELSE a

FSquare(a) ==
    IF a.k = "nan" THEN NaN
    ELSE IF a.k = "inf" THEN Inf(1)
    ELSE IF a.v = 0 THEN Fin(0)
    ELSE IF Abs(a.v) > MaxDouble \div Abs(a.v) THEN Inf(1)
    ELSE Fin(a.v * a.v)

FSqrt(a) ==
    IF a.k = "nan" \/ a.v < 0 THEN NaN
    ELSE IF a.k = "inf" THEN a
    ELSE Fin(CHOOSE k \in 0..a.v : k * k <= a.v /\ (k + 1) * (k + 1) > a.v)

FAbs(a) == IF a.k = "nan" THEN NaN ELSE [k |-> a.k, v |-> Abs(a.v)]

\* a quotient of two doubles is kept as a fraction
FDiv(a, b) ==
    IF a.k = "nan" \/ b.k = "nan" THEN NaN
    ELSE IF a.k = "inf" THEN IF b.k = "inf" THEN NaN
                             ELSE Inf(a.v * Sign(b.v))
    ELSE IF b.k = "inf" THEN [k |-> "frac", n |-> 0, d |-> 1]
    ELSE IF b.v = 0 THEN IF a.v = 0 THEN NaN ELSE Inf(Sign(a.v))
    ELSE [k |-> "frac", n |-> a.v * Sign(b.v), d |-> Abs(b.v)]

\* n/d < 1/D
FracLess(n, d, D) == n <= 0 \/ n <= (d - 1) \div D

\* deviation < MAX_DEVIATION
FLess(x, D) ==
    IF x.k = "frac" THEN FracLess(x.n, x.d, D)
    ELSE x.k = "inf" /\ x.v < 0

\* np.mean([ref, cur])
np_mean(ref, cur) == FHalf(FAdd(ref, cur))

\* np.std([ref, cur])
np_std(ref, cur) ==
    LET m == np_mean(ref, cur)
    IN  FSqrt(FHalf(FAdd(FSquare(FSub(ref, m)), FSquare(FSub(cur, m)))))

\* read_output(DIR): the double on the last line of DIR/res.dat, or
\* Raises (no such file, or float() raises ValueError)
Raises == [k |-> "raises", v |-> 0]

read_output(file) ==
    IF file = NoValue THEN Raises
    ELSE LET lines == SplitLines(Strip(file))
             tok == ParseFloat(lines[Len(lines)])
         IN  IF tok = "ValueError" THEN Raises ELSE FloatOf(tok)

StatLog(ref, cur, deviation) ==
    [kind |-> "stat", reference |-> ref, current |-> cur,
     deviation |-> deviation]
ErrorLog == [kind |-> "ERROR"]

\* one run of ddCmp REFDIR CURDIR: exit status and the res.stat it
\* leaves in CURDIR (NoRecord: none written).  The script written by
\* 05_setup_ddebug.py has no exception handler; the one written by
\* archimedes_analyzer.py logs the error.
ddCmp(script, MAX_DEVIATION, reffile, curfile) ==
    LET ref == read_output(reffile)
        cur == IF ref = Raises THEN Raises ELSE read_output(curfile)
    IN  IF cur = Raises
        THEN IF script = "archimedes"
             THEN [exit |-> 1, stat |-> ErrorLog]
             ELSE [exit |-> 1, stat |-> NoRecord]
        ELSE LET deviation == FDiv(np_std(ref, cur),
                                   FAbs(np_mean(ref, cur)))
             IN  [exit |-> IF FLess(deviation, MAX_DEVIATION) THEN 0 ELSE 1,
                  stat |-> StatLog(ref, cur, deviation)]

CmpScripts == {"05_setup_ddebug", "archimedes"}
CmpThresholds == {Threshold1e6, Threshold1e2}
CmpLines == Numerals \cup {"nan", "inf", "-inf", "abc"}
CmpFiles ==
    {NoValue, <<>>, <<"abc", "nl", "1.00", "nl">>, <<"1.00", "nl", "nl">>,
     <<"1.02">>}
       \cup {<<l, "nl">> : l \in CmpLines}

\* vfc_ddebug calls ddCmp on the reference directory and a run directory
DdCmpRun ==
    /\ cmp_call = NoRecord
    /\ \E script \in CmpScripts, t \in CmpThresholds,
          reffile \in CmpFiles, curfile \in CmpFiles :
          cmp_call' = [script |-> script, threshold |-> t,
                       reffile |-> reffile, curfile |-> curfile,
                       result |-> ddCmp(script, t, reffile, curfile)]
    /\ UNCHANGED <<spec, mvars, gvars, cvars, vvars, dd_setups, workspaces,
                   setup_manifest, rvars>>

InitCmp ==
    /\ spec = "cmp"
    /\ IdleMut
    /\ IdleGen
    /\ StagesStart({})

NextCmp == DdCmpRun

SpecCmp == InitCmp /\ [][NextCmp]_vars

\* the parsed values of an execution whose two files both parse
BothParsed(call) ==
    /\ read_output(call.reffile) # Raises
    /\ read_output(call.curfile) # Raises

\* stddev({r, c}) / |mean({r, c})| < 1/D over the reals, for finite r and
\* c: stddev is |r - c| / 2 and |mean| is |r + c| / 2; with a zero mean
\* the quotient does not exist and is below no threshold
DeviationBelow(r, c, D) ==
    /\ r + c # 0
    /\ FracLess(Abs(r - c), Abs(r + c), D)

\* C13: for every pair of parsed (finite) values r, c and threshold t the
\* compare script exits 0 if and only if stddev({r, c}) / |mean({r, c})| < t
\* and non-zero otherwise, and the decision is the same with r and c
\* swapped.
C13_ExitZeroIffDeviationBelowThreshold ==
    (cmp_call # NoRecord /\ BothParsed(cmp_call)) =>
        LET r == read_output(cmp_call.reffile)
            c == read_output(cmp_call.curfile)
            swapped == ddCmp(cmp_call.script, cmp_call.threshold,
                             cmp_call.curfile, cmp_call.reffile)
        IN  (r.k = "fin" /\ c.k = "fin") =>
                /\ (cmp_call.result.exit = 0)
                       <=> DeviationBelow(r.v, c.v, cmp_call.threshold)
                /\ cmp_call.result.exit \in {0, 1}
                /\ swapped.exit = cmp_call.result.exit


\* C14: when the last line of either output file cannot be read or parsed
\* as a number, the compare script writes an error log into the current
\* output directory and exits non-zero; it never exits 0 then and never
\* exits without having written a log file.
C14_ParseErrorLoggedAndNonZero ==
    cmp_call # NoRecord =>
        /\ cmp_call.result.stat # NoRecord
        /\ ~BothParsed(cmp_call) =>
              /\ cmp_call.result.exit # 0
              /\ cmp_call.result.stat = ErrorLog


\* ---------------------------------------------------------------------
\* archimedes_analyzer.py: run_single_experiment and run_delta_debug
\* ---------------------------------------------------------------------
\* self.variables
ArchVariables == <<"ti", "tii", "fact", "res", "s">>

\* generate_precision_configs: (config_name, variables_as_float)
generate_precision_configs ==
    <<  <<"all_double", <<>> >>, <<"all_float", ArchVariables>> >>
    \o [i \in 1..Len(ArchVariables) |->
           <<"only_" \o ArchVariables[i] \o "_float", <<ArchVariables[i]>> >>]
    \o << <<"ti_tii_float", <<"ti", "tii">> >>,
          <<"ti_s_float", <<"ti", "s">> >>,
          <<"tii_res_float", <<"tii", "res">> >>,
          <<"s_ti_float", <<"s", "ti">> >> >>

\* self.dd_modes, by quick_mode
dd_modes(quick_mode) ==
    IF quick_mode THEN <<"rr", "mca">> ELSE <<"rr", "pb", "mca", "cancel">>

\* parse_dd_results(dd_dir)
\* re.search(r'archimedes\.c:(\d+)', line): the line number, or 0 when
\* the line does not match
ArchLineNumber(l) ==
    IF /\ l.shape = "record"
       /\ Len(l.file) >= 1
       /\ l.file[Len(l.file)] = "archimedes.c"
    THEN l.line ELSE 0

\* the numbers matched in one of the possible_locations
ArchFileNumbers(f) ==
    IF ~f.exists THEN {}
    ELSE {ArchLineNumber(f.lines[i]) : i \in 1..Len(f.lines)} \ {0}

parse_dd_results(tree) ==
    IF tree = NoRecord THEN <<>>
    ELSE SortedSeq(
        ArchFileNumbers(tree.exclude)
        \cup UNION {ArchFileNumbers(tree.includes[i]) :
                       i \in 1..Min(2, Len(tree.includes))}
        \cup ArchFileNumbers(tree.root_exclude))

\* the dict returned by run_delta_debug
run_delta_debug(dd_mode, binary_exists, o) ==
    IF ~binary_exists
    THEN [mode |-> dd_mode, unstable_lines |-> <<>>, success |-> FALSE,
          output |-> "Binary not found"]
    ELSE IF o.kind = "timeout"
    THEN [mode |-> dd_mode, unstable_lines |-> <<>>, success |-> FALSE,
          output |-> "Timeout"]
    ELSE IF o.kind = "error"
    THEN [mode |-> dd_mode, unstable_lines |-> <<>>, success |-> FALSE,
          output |-> "str(e)"]
    ELSE IF o.returncode # 0 \/ o.says_failed
    THEN [mode |-> dd_mode, unstable_lines |-> <<>>, success |-> FALSE,
          output |-> "stdout+stderr"]
    ELSE [mode |-> dd_mode, unstable_lines |-> parse_dd_results(o.tree),
          success |-> TRUE, output |-> "stdout"]

\* a tree left in a work directory by an earlier run of the analyzer
StaleTree == Tree(<<12>>, <<>>)

ArchCompileOutcomes ==
    {ExitOutcome(0, "written", ""), ExitOutcome(1, "none", "err"),
     TimeoutOutcome}

ArchDDOutcomes ==
    {DDOutcome("exit", 0, Tree1617),
     DDOutcome("exit", 0, NoRecord),
     DDOutcomeSaying("exit", 0, Tree1617, TRUE),
     DDOutcomeSaying("exit", 1, Tree1617, TRUE),
     DDOutcome("exit", 1, Tree1617),
     DDOutcomeSaying("exit", 1, NoRecord, TRUE),
     DDOutcome("timeout", -1, Tree1617),
     DDOutcome("error", -1, NoRecord)}

\* save_results: results.json written from self.results
save_results(experiments) == [experiments |-> experiments]

\* run_single_experiment lines 452-476: the work directory, the modified
\* source and the compilation; a failed compilation ends the experiment,
\* and run_all_experiments appends its result and saves results.json
ArchStartExperiment ==
    /\ spec = "archimedes"
    /\ experiment = NoRecord
    /\ all_results = <<>>
    /\ \E c \in 1..Len(generate_precision_configs),
          r \in 0..(CellsPerVariant - 1), quick_mode \in BOOLEAN,
          stale \in BOOLEAN, o \in ArchCompileOutcomes :
        LET config_name == generate_precision_configs[c][1]
            float_vars  == generate_precision_configs[c][2]
            opt_level   == OPT_LEVELS[(r \div Len(FASTMATH_OPTIONS)) + 1]
            use_fastmath == FASTMATH_OPTIONS[(r % Len(FASTMATH_OPTIONS)) + 1]
            work_dir    == config_name \o "_" \o opt_level \o "_"
                               \o FastmathStr(use_fastmath)
            binary_path == work_dir \o "/archimedes_bin"
            exp == [config |-> config_name, float_vars |-> float_vars,
                    opt_level |-> opt_level, fastmath |-> use_fastmath]
        IN  /\ trees' = IF stale THEN (work_dir :> StaleTree) @@ trees
                        ELSE trees
            /\ disk' = DiskAfter(binary_path, o, disk)
            /\ IF compile_with_flags(binary_path, o, disk) = "True"
               THEN /\ experiment' = exp @@ [work_dir |-> work_dir,
                                             binary_path |-> binary_path,
                                             quick_mode |-> quick_mode]
                    /\ UNCHANGED <<all_results, dd_manifest>>
               ELSE /\ all_results' = Append(all_results,
                           exp @@ [status |-> "compilation_failed"])
                    /\ dd_manifest' = save_results(all_results')
                    /\ UNCHANGED experiment
    /\ UNCHANGED <<spec, mvars, gvars, compilation_results, compile_log,
                   flags_call, compilation_manifest, vvars, svars, invoked,
                   dd_results, parse_call, avars>>

\* one iteration of the loop over self.dd_modes: run_delta_debug writes
\* ddRun and ddCmp, removes a stale dd.line, runs the minimizer and
\* returns its dict; after the last mode the experiment result is built,
\* and run_all_experiments appends it and saves results.json
ArchRunDeltaDebug ==
    /\ experiment # NoRecord
    /\ \E o \in ArchDDOutcomes :
        LET modes == dd_modes(experiment.quick_mode)
            mode_name == modes[Len(dd_results) + 1]
            ws == experiment.work_dir
            binary_exists == experiment.binary_path \in disk
            start == TreeAfterClean(TreeOf(ws))
            left == TreeLeftBy(start, o)
            dd_result == run_delta_debug(mode_name, binary_exists,
                                         [o EXCEPT !.tree = left])
            results == Append(dd_results, dd_result)
        IN  /\ IF binary_exists
               THEN /\ workspaces' =
                          (ws :> [ddRun |-> experiment.binary_path,
                                  ddCmp |-> Threshold1e6]) @@ workspaces
                    /\ trees' = (ws :> left) @@ trees
                    /\ invoked' = Append(invoked,
                          [workspace |-> ws, backend |-> mode_name,
                           tree_at_start |-> start, outcome |-> o])
               ELSE UNCHANGED <<workspaces, trees, invoked>>
            /\ IF Len(results) = Len(modes)
               THEN /\ dd_results' = <<>>
                    /\ all_results' = Append(all_results,
                           [config |-> experiment.config,
                            float_vars |-> experiment.float_vars,
                            opt_level |-> experiment.opt_level,
                            fastmath |-> experiment.fastmath,
                            status |-> "success",
                            delta_debug |-> results,
                            work_dir |-> ws])
                    /\ dd_manifest' = save_results(all_results')
                    /\ experiment' = NoRecord
               ELSE /\ dd_results' = results
                    /\ UNCHANGED <<all_results, dd_manifest, experiment>>
    /\ UNCHANGED <<spec, mvars, gvars, cvars, vvars, dd_setups,
                   setup_manifest, cmp_call, parse_call, avars>>

InitArch ==
    /\ spec = "archimedes"
    /\ IdleMut
    /\ IdleGen
    /\ StagesStart({})

NextArch ==
    \/ ArchStartExperiment
    \/ ArchRunDeltaDebug

SpecArch == InitArch /\ [][NextArch]_vars

\* C15: the deviation threshold is threaded per cell into the compare
\* script: every cell set up for localization has 1e-6 in its compare
\* script (and its setup entry) when its modified_vars is empty and 1e-2
\* when it is not.
C15_ThresholdPerCell ==
    /\ \A k \in 1..Len(dd_setups) :
          LET th == IF dd_setups[k].modified_vars = <<>>
                    THEN Threshold1e6 ELSE Threshold1e2
          IN  /\ dd_setups[k].threshold = th
              /\ workspaces[dd_setups[k].dd_workspace].ddCmp = th
    /\ experiment # NoRecord =>
          (experiment.work_dir \in DOMAIN workspaces =>
              workspaces[experiment.work_dir].ddCmp =
                  IF experiment.float_vars = <<>>
                  THEN Threshold1e6 ELSE Threshold1e2)


(***************************************************************************)
(* SpecLocalize: the localization of one run, by 06_run_ddebug.py at the    *)
(* end of the staged scripts or by archimedes_analyzer.py, in work          *)
(* directories that may hold the dd.line tree of an earlier run.            *)
(***************************************************************************)
LocalizeDDOutcomes ==
    {DDOutcome("exit", 0, Tree1617),
     DDOutcome("exit", 0, Tree(<<20>>, <<>>)),
     DDOutcome("exit", 1, NoRecord),
     DDOutcomeSaying("exit", 1, NoRecord, TRUE),
     DDOutcomeSaying("exit", 1, Tree1617, TRUE),
     DDOutcome("timeout", -1, NoRecord),
     DDOutcome("error", -1, NoRecord)}

\* the work directories of the staged run: those of the baseline cells
LocalizeWorkspaces ==
    {ConfigId(BaselineName, OPT_LEVELS[(r \div Len(FASTMATH_OPTIONS)) + 1],
              FASTMATH_OPTIONS[(r % Len(FASTMATH_OPTIONS)) + 1]) :
         r \in 0..(CellsPerVariant - 1)}

InitLocalize ==
    \/ /\ spec = "localize"
       /\ IdleMut
       /\ GenStart(ClassifySources, StagedModes)
       /\ StagesStartOn({}, {<<>>, [ws \in LocalizeWorkspaces |-> StaleTree]})
    \/ InitArch

NextLocalize ==
    \/ GenSelectConfigs
    \/ GenCreateVariant
    \/ GenSaveManifest
    \/ CompileCell(ClassifyCompileOutcomes)
    \/ CompileSaveManifest
    \/ ValidateCell({Exited(FiniteOut)})
    \/ ValidateSaveManifest
    \/ SetupCell
    \/ SetupSaveManifest
    \/ RunBackend(LocalizeDDOutcomes)
    \/ RunSaveManifest
    \/ ArchStartExperiment
    \/ ArchRunDeltaDebug

SpecLocalize == InitLocalize /\ [][NextLocalize]_vars

\* the record built by the n-th vfc_ddebug invocation
LocalizationRecordOf(n) ==
    IF spec = "archimedes"
    THEN IF all_results # <<>> THEN all_results[1].delta_debug[n]
         ELSE dd_results[n]
    ELSE DDRecordOf(n)

\* the unstable lines a record carries
LinesOf(rec) ==
    IF "unstable_lines" \in DOMAIN rec THEN Range(rec.unstable_lines) ELSE {}

\* the line numbers written in a file, and in any file of a tree
FileLines(f) ==
    {f.lines[i].line : i \in {j \in 1..Len(f.lines) :
                                f.lines[j].shape = "record"}}

TreeLines(tree) ==
    IF tree = NoRecord THEN {}
    ELSE FileLines(tree.exclude) \cup FileLines(tree.root_exclude)
         \cup UNION {FileLines(tree.includes[i]) :
                        i \in 1..Len(tree.includes)}

\* C16: at the moment the minimizer is invoked no dd.line tree exists in
\* the workspace, and the unstable lines recorded for a backend come from
\* the tree produced by that backend's own invocation only, never from an
\* earlier backend's or an earlier run's tree.
C16_NoStaleTreeAtInvocation ==
    \A n \in 1..Len(invoked) :
        /\ invoked[n].tree_at_start = NoRecord
        /\ LinesOf(LocalizationRecordOf(n)) \subseteq
               TreeLines(invoked[n].outcome.tree)

\* the second backend ran in a workspace where the first had left a tree
\* with lines 16 and 17, wrote no tree itself and got a record without lines
C16_Witness ==
    /\ Len(invoked) >= 2
    /\ invoked[2].workspace = invoked[1].workspace
    /\ invoked[1].outcome.tree = Tree1617
    /\ LinesOf(LocalizationRecordOf(1)) = {16, 17}
    /\ invoked[2].outcome = DDOutcome("exit", 1, NoRecord)
    /\ LinesOf(LocalizationRecordOf(2)) = {}


\* C17: when the minimizer exits with a non-zero status and its output
\* holds the 'failed' marker, the record of that (cell, backend) has
\* success=false, whether or not a tree was left on disk, and the run goes
\* on with the next backend and cell.
C17_FailedMarkerIsFailure ==
    \A n \in 1..Len(invoked) :
        (/\ invoked[n].outcome.kind = "exit"
         /\ invoked[n].outcome.returncode # 0
         /\ invoked[n].outcome.says_failed)
            => ~LocalizationRecordOf(n).success

\* the records of the backends of every finished cell
FinishedCells ==
    IF spec = "archimedes"
    THEN {all_results[i].delta_debug :
              i \in {j \in 1..Len(all_results) :
                         all_results[j].status = "success"}}
    ELSE {all_results[i].dd_results : i \in 1..Len(all_results)}

\* the name under which a record lists its backend
BackendOf(rec) == IF spec = "archimedes" THEN rec.mode ELSE rec.backend

\* the backends list of the run
BackendsOfRun ==
    IF spec = "archimedes"
    THEN dd_modes(Len(all_results[1].delta_debug) = 2)
    ELSE Backends

\* C18: every cell of the delta-debug manifest has exactly one record per
\* backend of the backends list, in backend order, whatever the outcome;
\* a record of a failed backend has success=false and carries an empty
\* unstable_lines set.
C18_OneRecordPerBackend ==
    \A recs \in FinishedCells :
        /\ Len(recs) = Len(BackendsOfRun)
        /\ \A b \in 1..Len(recs) :
              /\ BackendOf(recs[b]) = BackendsOfRun[b]
              /\ ~recs[b].success =>
                     /\ "unstable_lines" \in DOMAIN recs[b]
                     /\ recs[b].unstable_lines = <<>>


(***************************************************************************)
(* SpecParse: find_unstable_lines and parse_dd_results applied to a         *)
(* minimizer output tree                                                    *)
(***************************************************************************)
MaxFileLines == 2
MaxDdmin == 3

\* the lines that the files of the model are made of: the two lines of
\* test_parser, a line whose address lacks the 0x, lines whose function
\* is not a word ("??", "f g"), a line of another source file and a line
\* without "file:line"
TreeFileLines ==
    {PlainLine(16), PlainLine(17),
     DDLine(<<"4", "e">>, <<"f">>, <<"archimedes.c">>, 18),
     DDLine(<<"0", "x", "4", "e">>, <<"?", "?">>, <<"archimedes.c">>, 19),
     DDLine(<<"0", "x", "5", "c">>, <<"f", " ", "g">>, <<"archimedes.c">>,
            20),
     DDLine(<<"0", "x", "5", "c">>, <<"g">>, <<"main.c">>, 21),
     OtherLine}

ExcludeFiles ==
    {MissingFile} \cup {DDFile(ls) : ls \in SeqsUpTo(TreeFileLines,
                                                    MaxFileLines)}

IncludeFiles ==
    {MissingFile, DDFile(<<PlainLine(17), PlainLine(16)>>),
     DDFile(<<PlainLine(25)>>)}

RootFiles == {MissingFile, DDFile(<<PlainLine(30)>>)}

ParseTrees ==
    {TreeOfFiles(e, i, r) :
         e \in ExcludeFiles, i \in SeqsUpTo(IncludeFiles, MaxDdmin),
         r \in RootFiles}

\* one call of find_unstable_lines(dd_dir), and of parse_dd_results(dd_dir)
\* on the same tree
ParseTree ==
    /\ parse_call = NoRecord
    /\ \E tree \in ParseTrees :
          parse_call' = [tree |-> tree,
                         unstable_lines |-> find_unstable_lines(tree),
                         archimedes |-> parse_dd_results(tree)]
    /\ UNCHANGED <<spec, mvars, gvars, cvars, vvars, svars, trees, invoked,
                   dd_results, all_results, dd_manifest, experiment, avars>>

InitParse ==
    /\ spec = "parse"
    /\ IdleMut
    /\ IdleGen
    /\ StagesStart({})

NextParse == ParseTree

SpecParse == InitParse /\ [][NextParse]_vars

\* the line numbers of rddmin-cmp/dd.line.exclude and of every
\* ddmin*/dd.line.include
UnionOfLines(tree) ==
    FileLines(tree.exclude)
        \cup UNION {FileLines(tree.includes[i]) :
                       i \in 1..Len(tree.includes)}

StrictlyIncreasing(s) == \A i \in 1..(Len(s) - 1) : s[i] < s[i + 1]

\* C19: for every minimizer output tree find_unstable_lines returns a
\* strictly increasing list that equals the union of the line numbers in
\* rddmin-cmp/dd.line.exclude and in every ddmin*/dd.line.include; a
\* missing file contributes nothing.
C19_SortedUnionOfLines ==
    parse_call # NoRecord =>
        /\ StrictlyIncreasing(parse_call.unstable_lines)
        /\ Range(parse_call.unstable_lines) = UnionOfLines(parse_call.tree)

\* the lines of a file
LinesOfFile(f) == {f.lines[i] : i \in 1..Len(f.lines)}

\* the lines of the files that find_unstable_lines reads
LinesRead(tree) ==
    LinesOfFile(tree.exclude)
        \cup UNION {LinesOfFile(tree.includes[i]) :
                       i \in 1..Len(tree.includes)}

\* C20: a record of the minimizer output contributes its line number
\* whenever it ends in 'file:line': a record whose address is not a 0x-hex
\* literal or whose function is not a single word is still parsed and its
\* line is included.
C20_TrailingFileLineSuffices ==
    parse_call # NoRecord =>
        \A l \in LinesRead(parse_call.tree) :
            (l.shape = "record" /\ IsFileName(l.file)) =>
                /\ from_line(l) # NoRecord
                /\ l.line \in Range(parse_call.unstable_lines)

(***************************************************************************)
(* 07_analyze_results.py: the summary and the report built from the         *)
(* delta-debug manifest and, in scripts/07, from validation.json            *)
(***************************************************************************)
\* sum(len(dr['unstable_lines']) for dr in dd_results if dr['success'])
RECURSIVE total_unstable_lines(_)
total_unstable_lines(drs) ==
    IF drs = <<>> THEN 0
    ELSE (IF Head(drs).success THEN Len(Head(drs).unstable_lines) ELSE 0)
         + total_unstable_lines(Tail(drs))

\* d.get(key, default)
Get(d, key, default) == IF key \in DOMAIN d THEN d[key] ELSE default

\* the config_summary built for one result of the delta-debug manifest
config_summary(result) ==
    [config_id |-> result.config_id,
     variant_name |-> result.variant_name,
     modified_vars |-> Get(result, "modified_vars", <<>>),
     opt_level |-> result.opt_level,
     fastmath |-> result.fastmath,
     total_unstable_lines |-> total_unstable_lines(result.dd_results)]

\* the entry of skipped_configs built for one validation record
skipped_config(v) ==
    [config_id |-> v.config_id,
     variant_name |-> Get(v, "variant_name", "Unknown"),
     modified_vars |-> Get(v, "modified_vars", <<>>),
     opt_level |-> Get(v, "opt_level", "N/A"),
     fastmath |-> Get(v, "fastmath", FALSE),
     reason |-> Get(v, "validity_reason", "Unknown")]

RECURSIVE config_summaries(_)
config_summaries(results) ==
    IF results = <<>> THEN <<>>
    ELSE <<config_summary(Head(results))>> \o config_summaries(Tail(results))

RECURSIVE skipped_configs(_)
skipped_configs(validations) ==
    IF validations = <<>> THEN <<>>
    ELSE (IF ~Head(validations).valid
          THEN <<skipped_config(Head(validations))>> ELSE <<>>)
         \o skipped_configs(Tail(validations))

IsStable(c) == c.total_unstable_lines = 0

IsUnstable(c) == c.total_unstable_lines # 0

\* list.sort(key=total_unstable_lines, reverse=True): a stable sort, equal
\* keys keep their order
RECURSIVE InsertDesc(_, _)
InsertDesc(sorted, c) ==
    IF sorted = <<>> THEN <<c>>
    ELSE IF Head(sorted).total_unstable_lines >= c.total_unstable_lines
    THEN <<Head(sorted)>> \o InsertDesc(Tail(sorted), c)
    ELSE <<c>> \o sorted

RECURSIVE SortDesc(_)
SortDesc(s) ==
    IF s = <<>> THEN <<>>
    ELSE InsertDesc(SortDesc(SubSeq(s, 1, Len(s) - 1)), s[Len(s)])

\* generate_json_summary; validation_data is NoRecord where the script has
\* none
generate_json_summary(dd, validation_data) ==
    LET cs == config_summaries(dd.results)
        base == [total_configs |-> Len(dd.results),
                 backends |-> dd.backends,
                 stable_configs |-> SelectSeq(cs, IsStable),
                 unstable_configs |-> SortDesc(SelectSeq(cs, IsUnstable))]
    IN  IF validation_data # NoRecord
        THEN [validation_summary |->
                  [valid |-> validation_data.valid,
                   invalid |-> validation_data.invalid,
                   total_tested |-> validation_data.total_tested],
              skipped_configs |->
                  skipped_configs(validation_data.validations)] @@ base
        ELSE base

\* s[:n]
Take(s, n) == SubSeq(s, 1, Min(n, Len(s)))

\* generate_markdown_report, section Key Findings: the configurations
\* listed as stable and as most unstable, at most ten of each
generate_markdown_report(dd) ==
    LET cs == config_summaries(dd.results)
    IN  [stable_configs |-> Take(SelectSeq(cs, IsStable), 10),
         unstable_configs |-> SelectSeq(Take(SortDesc(cs), 10), IsUnstable)]

\* the two versions of the script, soc/scripts/07 and src/scripts/07
AnalyzeScripts == {"soc", "scripts"}

\* main: --results names the delta-debug manifest or its directory; only
\* scripts/07 looks for validation.json, and only in that directory.
\* beside: the validation manifest was written there under that name
Analyze ==
    /\ dd_manifest # NoRecord
    /\ analysis = NoRecord
    /\ \E script \in AnalyzeScripts, beside \in BOOLEAN :
          LET validation_data ==
                  IF script = "scripts" /\ beside
                  THEN validation_manifest ELSE NoRecord
          IN  analysis' =
                  [script |-> script, validation_beside |-> beside,
                   summary |-> generate_json_summary(dd_manifest,
                                                     validation_data),
                   report |-> generate_markdown_report(dd_manifest)]
    /\ UNCHANGED <<spec, mvars, gvars, cvars, vvars, svars, trees, invoked,
                   dd_results, all_results, dd_manifest, experiment,
                   parse_call, scope_call, batch>>

(***************************************************************************)
(* The staged run followed by the report generator                          *)
(***************************************************************************)
\* double a;
AnalyzeSources == {<<"D", "sp", "a", ";", "nl">>}

AnalyzeRunOutcomes == {Exited(FiniteOut), Exited(NaNOut)}

\* the minimizer leaves a tree naming lines 16 and 17, one naming 16, 17
\* and 18, one naming no line, fails without a tree, or times out
AnalyzeDDOutcomes ==
    {DDOutcome("exit", 0, Tree1617),
     DDOutcome("exit", 0, Tree(<<16, 17, 18>>, <<>>)),
     DDOutcome("exit", 0, Tree(<<>>, <<>>)),
     DDOutcome("exit", 1, NoRecord),
     DDOutcome("timeout", -1, NoRecord)}

InitAnalyze ==
    /\ spec = "analyze"
    /\ IdleMut
    /\ GenStart(AnalyzeSources, StagedModes)
    /\ StagesStart({})

NextAnalyze ==
    \/ GenSelectConfigs
    \/ GenCreateVariant
    \/ GenSaveManifest
    \/ CompileCell(PipeCompileOutcomes)
    \/ CompileSaveManifest
    \/ ValidateCell(AnalyzeRunOutcomes)
    \/ ValidateSaveManifest
    \/ SetupCell
    \/ SetupSaveManifest
    \/ RunBackend(AnalyzeDDOutcomes)
    \/ RunSaveManifest
    \/ Analyze

SpecAnalyze == InitAnalyze /\ [][NextAnalyze]_vars

\* how many entries of a list carry the config_id c
Listed(list, c) ==
    Cardinality({i \in 1..Len(list) : list[i].config_id = c})

\* C21: the summary accounts for every cell that reached compilation
\* exactly once: a cell that validation did not pass has an entry of
\* skipped_configs with its reason, every other cell is in exactly one of
\* stable_configs and unstable_configs, whatever --results points to.
C21_EveryCellAccountedOnce ==
    analysis # NoRecord =>
        LET s       == analysis.summary
            skipped == Get(s, "skipped_configs", <<>>)
        IN  \A k \in 1..Len(validation_manifest.validations) :
                LET v == validation_manifest.validations[k]
                IN  IF v.valid
                    THEN /\ Listed(s.stable_configs, v.config_id)
                            + Listed(s.unstable_configs, v.config_id) = 1
                         /\ Listed(skipped, v.config_id) = 0
                    ELSE /\ \E i \in 1..Len(skipped) :
                               /\ skipped[i].config_id = v.config_id
                               /\ "validity_reason" \in DOMAIN v =>
                                      skipped[i].reason = v.validity_reason
                         /\ Listed(s.stable_configs, v.config_id) = 0
                         /\ Listed(s.unstable_configs, v.config_id) = 0


\* the union of unstable_lines over the successful backend records
RECURSIVE UnionOfBackends(_)
UnionOfBackends(drs) ==
    IF drs = <<>> THEN {}
    ELSE (IF Head(drs).success THEN Range(Head(drs).unstable_lines) ELSE {})
         \cup UnionOfBackends(Tail(drs))

\* the union for the cell that a summary entry names
UnionFor(c) ==
    UnionOfBackends(
        (CHOOSE r \in Range(dd_manifest.results) :
             r.config_id = c.config_id).dd_results)

\* a list of summary entries is in non-increasing order of the
\* cardinality of the union
RankedByUnion(list) ==
    \A i, j \in 1..Len(list) :
        i < j => Cardinality(UnionFor(list[i])) >=
                 Cardinality(UnionFor(list[j]))

\* C22: a localized cell is stable iff the union of unstable_lines over
\* its successful backend records is empty, and the unstable cells are
\* listed in non-increasing order of the cardinality of that union.
C22_StableIffUnionEmptyRankedByUnion ==
    analysis # NoRecord =>
        /\ \A c \in Range(analysis.summary.stable_configs) :
               UnionFor(c) = {}
        /\ \A c \in Range(analysis.summary.unstable_configs) :
               UnionFor(c) # {}
        /\ \A c \in Range(analysis.report.stable_configs) :
               UnionFor(c) = {}
        /\ \A c \in Range(analysis.report.unstable_configs) :
               UnionFor(c) # {}
        /\ RankedByUnion(analysis.summary.unstable_configs)
        /\ RankedByUnion(analysis.report.unstable_configs)


\* the backend records of the cell that a summary entry names
BackendRecordsFor(c) ==
    (CHOOSE r \in Range(dd_manifest.results) :
         r.config_id = c.config_id).dd_results

\* C30: a cell is listed in stable_configs only if at least one of its
\* backend records has success=true.
C30_StableNeedsASuccessfulBackend ==
    analysis # NoRecord =>
        \A c \in Range(analysis.summary.stable_configs)
                 \cup Range(analysis.report.stable_configs) :
            \E dr \in Range(BackendRecordsFor(c)) : dr.success


(***************************************************************************)
(* Manifests on disk while a stage is running                               *)
(***************************************************************************)
\* the manifest on disk lists, under key, the records built so far
FlushedTo(manifest, key, records) ==
    records # <<>> =>
        /\ manifest # NoRecord
        /\ key \in DOMAIN manifest
        /\ Len(manifest[key]) >= Len(records)
        /\ \A k \in 1..Len(records) : manifest[key][k] = records[k]

\* C23: in every stage, once cell k has completed, the manifest of the
\* stage on disk holds the records of cells 1..k (the manifest is written
\* after every cell, not only when the stage ends).
C23_ManifestFlushedPerCell ==
    /\ FlushedTo(compilation_manifest, "compilations", compilation_results)
    /\ FlushedTo(validation_manifest, "validations", validation_results)
    /\ FlushedTo(setup_manifest, "setups", dd_setups)
    /\ FlushedTo(dd_manifest,
                 IF spec = "archimedes" THEN "experiments" ELSE "results",
                 all_results)


(***************************************************************************)
(* CSourceParser: find_function_scope and extract_variables(function_name)  *)
(* In this section "(" is the opening parenthesis; ")", "{" and "}" are     *)
(* further non-word atoms.                                                  *)
(***************************************************************************)
MaxScopeLines == 3       \* most lines in a source text with functions

\* first index >= i of the atom c in s, or 0
RECURSIVE FirstIndexOf(_, _, _)
FirstIndexOf(s, i, c) ==
    IF i > Len(s) THEN 0
    ELSE IF s[i] = c THEN i ELSE FirstIndexOf(s, i + 1, c)

\* \s*\([^)]*\)\s*\{ matches from e
SignatureTail(s, e) ==
    LET q == SkipSpace(s, e)
        r == FirstIndexOf(s, q + 1, ")")
        z == SkipSpace(s, r + 1)
    IN  /\ q <= Len(s)
        /\ s[q] = "("
        /\ r # 0
        /\ z <= Len(s)
        /\ s[z] = "{"

\* (?:\w+\s+)+NAME\s*\([^)]*\)\s*\{ matches from the word at i, n words
\* having been taken already (static and inline are words like any other)
RECURSIVE WordsThenName(_, _, _, _)
WordsThenName(s, i, name, n) ==
    LET e == WordRunEnd(s, i)
        w == SkipSpace(s, e)
    IN  /\ e # i
        /\ \/ n >= 1 /\ SubSeq(s, i, e - 1) = name /\ SignatureTail(s, e)
           \/ w > e /\ WordsThenName(s, w, name, n + 1)

\* the positions where ^ matches under re.MULTILINE
LineStarts(s) == {1} \cup {i + 1 : i \in {j \in 1..Len(s) : s[j] = "nl"}}

\* pattern.search(self.source_code): start of the leftmost match, or 0
FunctionSearch(s, name) ==
    LET ms == {p \in LineStarts(s) :
                  WordsThenName(s, SkipSpace(s, p), name, 0)}
    IN  IF ms = {} THEN 0 ELSE CHOOSE p \in ms : \A q \in ms : p <= q

\* line.count(c)
CountIn(line, c) == Cardinality({i \in 1..Len(line) : line[i] = c})

\* the loop that looks for the closing brace, from line i on
RECURSIVE BraceEnd(_, _, _, _, _)
BraceEnd(ls, i, start_line, brace_count, in_function) ==
    IF i > Len(ls) THEN start_line
    ELSE LET c == brace_count + CountIn(ls[i], "{") - CountIn(ls[i], "}")
             f == in_function \/ CountIn(ls[i], "{") > 0
         IN  IF f /\ c = 0 THEN i
             ELSE BraceEnd(ls, i + 1, start_line, c, f)

\* find_function_scope: <<start_line, end_line>>
find_function_scope(s, func_name) ==
    LET ls == SplitLines(s)
        p  == FunctionSearch(s, func_name)
        start_line ==
            Cardinality({i \in 1..(p - 1) : s[i] = "nl"}) + 1
    IN  IF p = 0 THEN <<0, Len(ls)>>
        ELSE <<start_line, BraceEnd(ls, start_line, start_line, 0, FALSE)>>

\* extract_variables(function_name) for a non-empty function_name: the
\* loop over range(start_line - 1, min(end_line, len(self.lines))); index
\* -1 is the last line, reported as line 0
extract_variables_in(content, function_name) ==
    LET s     == read_source(content)
        ls    == SplitLines(s)
        scope == find_function_scope(s, function_name)
        first == IF scope[1] = 0 THEN 1 ELSE scope[1]
        last  == Min(scope[2], Len(ls))
    IN  (IF scope[1] = 0 THEN LineVariables(ls[Len(ls)], 0) ELSE <<>>)
            \o Flatten([k \in 1..(last - first + 1) |->
                           LineVariables(ls[first + k - 1], first + k - 1)])

\* lines of the source texts: a declaration, the opening line of the
\* functions a and b, an indented declaration, a closing brace
ScopeLines ==
    { <<"D", "sp", "a", ";">>,
      <<"D", "sp", "a", "(", ")", "sp", "{">>,
      <<"F", "sp", "b", "(", "D", "sp", "a", ")", "{">>,
      <<"sp", "F", "sp", "b", ";">>,
      <<"}">> }

\* the texts of one to MaxScopeLines lines, with and without a final
\* newline
ScopeTexts ==
    LET lss == SeqsUpTo(ScopeLines, MaxScopeLines) \ {<<>>}
    IN  {JoinLines(ls) : ls \in lss} \cup
        {JoinLines(ls) \o <<"nl">> : ls \in lss}

\* one call of CSourceParser(path).extract_variables(function_name)
ExtractVariables ==
    /\ scope_call = NoRecord
    /\ \E content \in ScopeTexts, function_name \in {NameA, NameB} :
          scope_call' =
              [content |-> content, function_name |-> function_name,
               scope |-> find_function_scope(read_source(content),
                                             function_name),
               variables |-> extract_variables_in(content, function_name)]
    /\ UNCHANGED <<spec, mvars, gvars, cvars, vvars, svars, trees, invoked,
                   dd_results, all_results, dd_manifest, experiment,
                   parse_call, analysis, batch>>

InitScope ==
    /\ spec = "scope"
    /\ IdleMut
    /\ IdleGen
    /\ StagesStart({})

NextScope == ExtractVariables

SpecScope == InitScope /\ [][NextScope]_vars

\* the function name occurs as a function definition in the source
DefinedIn(content, function_name) ==
    FunctionSearch(read_source(content), function_name) # 0

\* C24: extract_variables(function_name) returns an empty list whenever
\* the source holds no definition of a function of that name, whatever
\* declarations the file contains.
C24_UnknownFunctionGivesEmptyList ==
    scope_call # NoRecord =>
        (~DefinedIn(scope_call.content, scope_call.function_name)
             => scope_call.variables = <<>>)


(***************************************************************************)
(* Records of an earlier stage as a later stage carries them                *)
(***************************************************************************)
\* every field of the record c has the same value in the record v
CarriedUnchanged(c, v) ==
    \A f \in DOMAIN c : f \in DOMAIN v /\ v[f] = c[f]

\* C25: a validation record never changes what the compilation stage
\* wrote: every field of the compilation record of the cell (config_id,
\* success, binary_path, returncode, stdout, stderr, compile_time, ...)
\* has the same value in the validation record, whatever the validation
\* outcome.
C25_ValidationKeepsCompilationFields ==
    \A k \in 1..Len(validation_results) :
        CarriedUnchanged(compilation_manifest.compilations[k],
                         validation_results[k])


(***************************************************************************)
(* Cell identities                                                          *)
(***************************************************************************)
\* the cell of a compilation record: variant, optimization level, fast-math
CellKey(rec) == <<rec.variant_id, rec.opt_level, rec.fastmath>>

\* C26: config_id is injective over the cells of a run: two cells that
\* differ in variant, optimization level or fast-math flag have different
\* config_ids, different binary directories and different delta-debug
\* workspaces.
C26_ConfigIdInjective ==
    /\ \A i, j \in 1..Len(compilation_results) :
           CellKey(compilation_results[i]) # CellKey(compilation_results[j])
               => /\ compilation_results[i].config_id
                         # compilation_results[j].config_id
                  /\ compilation_results[i].binary_dir
                         # compilation_results[j].binary_dir
    /\ \A i, j \in 1..Len(dd_setups) :
           i # j => dd_setups[i].dd_workspace # dd_setups[j].dd_workspace


(***************************************************************************)
(* The validation manifest against the compilation manifest                 *)
(***************************************************************************)
\* C27: the validation manifest has one record per compilation record, in
\* the same order and with the same config_id; valid + invalid is the
\* number of compilation records with success=true and total_tested is
\* the number of all compilation records.
C27_ValidationManifestCounts ==
    validation_manifest # NoRecord =>
        LET vs == validation_manifest.validations
            cs == compilation_manifest.compilations
        IN  /\ Len(vs) = Len(cs)
            /\ \A k \in 1..Len(cs) : vs[k].config_id = cs[k].config_id
            /\ validation_manifest.valid + validation_manifest.invalid
                   = success_count(cs)
            /\ validation_manifest.total_tested = Len(cs)
            /\ validation_manifest.valid
                   = Cardinality({k \in 1..Len(vs) : vs[k].valid})

\* a manifest written for a run with a cell whose compilation failed, a
\* valid cell and a cell that ran and is not valid
C27_Witness ==
    /\ validation_manifest # NoRecord
    /\ validation_manifest.valid > 0
    /\ validation_manifest.invalid > 0
    /\ validation_manifest.total_tested
           > validation_manifest.valid + validation_manifest.invalid
    /\ \E k \in 1..Len(validation_manifest.validations) :
           validation_manifest.validations[k].validation_status
               = "skipped_compilation_failed"


(***************************************************************************)
(* VerificarloCompiler.compile_batch: sequential, or on a thread pool       *)
(***************************************************************************)
MaxBatch == 3            \* most configurations in one compile_batch call

MaxWorkers == 2          \* largest max_workers

\* config.output_path of the i-th configuration
BatchPath(i) == <<"binary", i>>

\* config.output_path.parent.mkdir(...) fails: compile has not reached its
\* try block and the exception leaves compile
MkdirError ==
    [kind |-> "mkdir", returncode |-> -1, artifact |-> "kept", stderr |-> ""]

BatchOutcomes ==
    {ExitOutcome(0, "written", ""), ExitOutcome(1, "kept", "err"),
     TimeoutOutcome, MkdirError}

\* one call self.compile(config): its CompilationResult, or Raises
CompileCall(path, o, d) ==
    IF o.kind = "mkdir" THEN Raises ELSE compile(path, o, d)

\* results[n] = future.result(), n counting the completed futures
StoreInCompletionOrder(results, idx, n, r) == [results EXCEPT ![n] = r]

\* results[idx] = future.result(), idx = future_to_idx[future]
StoreResult(results, idx, n, r) == [results EXCEPT ![idx] = r]

Pending(i) == batch.tasks[i].state = "pending"

Running == {i \in 1..Len(batch.tasks) : batch.tasks[i].state = "running"}

\* compile_batch(configs, parallel, max_workers) is called; in parallel
\* mode every configuration is submitted to the executor
BatchStart ==
    /\ batch = NoRecord
    /\ \E n \in 0..MaxBatch, parallel \in BOOLEAN,
          max_workers \in 1..MaxWorkers :
          batch' =
              [configs |-> [i \in 1..n |-> BatchPath(i)],
               parallel |-> parallel,
               max_workers |-> max_workers,
               tasks |-> [i \in 1..n |->
                             [state |-> "pending", result |-> NoRecord]],
               results |-> IF parallel THEN [i \in 1..n |-> NoRecord]
                           ELSE <<>>,
               order |-> <<>>,
               pc |-> IF n = 0 THEN "returned" ELSE "running"]
    /\ UNCHANGED <<spec, mvars, gvars, cvars, vvars, svars, trees, invoked,
                   dd_results, all_results, dd_manifest, experiment,
                   parse_call, analysis, scope_call>>

\* not parallel: one element of [self.compile(config) for config in
\* configs]; an exception ends the call
BatchCompileNext ==
    /\ batch # NoRecord
    /\ ~batch.parallel
    /\ batch.pc = "running"
    /\ \E o \in BatchOutcomes :
        LET i == Len(batch.results) + 1
            r == CompileCall(batch.configs[i], o, disk)
        IN  /\ disk' = IF r = Raises THEN disk
                       ELSE DiskAfter(batch.configs[i], o, disk)
            /\ batch' =
                   [batch EXCEPT
                      !.tasks[i] = [state |-> "done", result |-> r],
                      !.results = IF r = Raises THEN @ ELSE Append(@, r),
                      !.order = Append(@, i),
                      !.pc = IF r = Raises THEN "raised"
                             ELSE IF i = Len(batch.configs) THEN "returned"
                             ELSE "running"]
    /\ UNCHANGED <<spec, mvars, gvars, compilation_results, compile_log,
                   flags_call, compilation_manifest, vvars, svars, trees,
                   invoked, dd_results, all_results, dd_manifest, experiment,
                   parse_call, analysis, scope_call>>

\* a free worker thread takes the oldest submitted call from the queue
WorkerTakes ==
    /\ batch # NoRecord
    /\ batch.parallel
    /\ Cardinality(Running) < batch.max_workers
    /\ \E i \in 1..Len(batch.tasks) :
          /\ Pending(i)
          /\ \A j \in 1..(i - 1) : ~Pending(j)
          /\ batch' = [batch EXCEPT !.tasks[i].state = "running"]
    /\ UNCHANGED <<spec, mvars, gvars, cvars, vvars, svars, trees, invoked,
                   dd_results, all_results, dd_manifest, experiment,
                   parse_call, analysis, scope_call>>

\* a worker thread ends its self.compile(config): the future is done
WorkerCompiles ==
    /\ batch # NoRecord
    /\ \E i \in Running, o \in BatchOutcomes :
        LET r == CompileCall(batch.configs[i], o, disk)
        IN  /\ disk' = IF r = Raises THEN disk
                       ELSE DiskAfter(batch.configs[i], o, disk)
            /\ batch' = [batch EXCEPT
                           !.tasks[i] = [state |-> "done", result |-> r]]
    /\ UNCHANGED <<spec, mvars, gvars, compilation_results, compile_log,
                   flags_call, compilation_manifest, vvars, svars, trees,
                   invoked, dd_results, all_results, dd_manifest, experiment,
                   parse_call, analysis, scope_call>>

\* one iteration of the loop over as_completed(future_to_idx): a done
\* future not yet yielded; future.result() returns or raises again
BatchCollect ==
    /\ batch # NoRecord
    /\ batch.parallel
    /\ batch.pc = "running"
    /\ \E i \in 1..Len(batch.tasks) :
          /\ batch.tasks[i].state = "done"
          /\ i \notin Range(batch.order)
          /\ LET r == batch.tasks[i].result
                 n == Len(batch.order) + 1
             IN  batch' =
                     [batch EXCEPT
                        !.results = IF r = Raises THEN @
                                    ELSE StoreResult(@, i, n, r),
                        !.order = Append(@, i),
                        !.pc = IF r = Raises THEN "raised"
                               ELSE IF n = Len(batch.configs)
                               THEN "returned" ELSE "running"]
    /\ UNCHANGED <<spec, mvars, gvars, cvars, vvars, svars, trees, invoked,
                   dd_results, all_results, dd_manifest, experiment,
                   parse_call, analysis, scope_call>>

InitBatch ==
    /\ spec = "batch"
    /\ IdleMut
    /\ IdleGen
    /\ StagesStart({})

NextBatch ==
    \/ BatchStart
    \/ BatchCompileNext
    \/ WorkerTakes
    \/ WorkerCompiles
    \/ BatchCollect

SpecBatch == InitBatch /\ [][NextBatch]_vars

\* C28: the list that compile_batch returns has the length of its input
\* and position i holds the result of compiling configs[i], in sequential
\* mode and in parallel mode for every number of workers and every
\* completion order; no slot is unset, no result is in another slot.
C28_BatchResultsInInputOrder ==
    (batch # NoRecord /\ batch.pc = "returned") =>
        /\ Len(batch.results) = Len(batch.configs)
        /\ \A i \in 1..Len(batch.configs) :
               /\ batch.results[i] # NoRecord
               /\ batch.tasks[i].state = "done"
               /\ batch.results[i] = batch.tasks[i].result
               /\ batch.results[i].success
                      => batch.results[i].binary_path = batch.configs[i]

\* a parallel call has returned after its futures completed in an order
\* other than the order of submission, with different results
C28_Witness ==
    /\ batch # NoRecord
    /\ batch.pc = "returned"
    /\ batch.parallel
    /\ Len(batch.configs) > 1
    /\ batch.order[1] # 1
    /\ batch.results[1] # batch.results[2]


(***************************************************************************)
(* Line structure of a mutated source                                       *)
(***************************************************************************)
\* a new modifier and one change_variable_types call on it
InitLines == InitMut

NextLines == ChangeVariableTypes

SpecLines == InitLines /\ [][NextLines]_vars

\* one of the two patterns of change_variable_types matches in the line
\* for a requested variable
HasMatchedDeclaration(line, vs) ==
    \E k \in 1..Len(vs), p \in 1..Len(line) :
        DeclMatchAt(line, p, vs[k], {",", ";", "="}) # 0

\* C29: change_variable_types keeps the line structure: the text returned
\* has as many lines as the source, and every line without a matched
\* declaration of a requested variable is the source line at the same
\* position, atom for atom.
C29_LineStructurePreserved ==
    change_args # NoValue =>
        LET before == SplitLines(source_code)
            after  == SplitLines(change_ret)
        IN  /\ Len(after) = Len(before)
            /\ \A i \in 1..Len(before) :
                   ~HasMatchedDeclaration(before[i], change_args[1])
                       => after[i] = before[i]

\* a text ending in a newline was mutated: one of its lines was rewritten
\* and another, without a matched declaration, was not
C29_Witness ==
    /\ change_args # NoValue
    /\ source_code[Len(source_code)] = "nl"
    /\ LET before == SplitLines(source_code)
           after  == SplitLines(change_ret)
       IN  \E i, j \in 1..Len(before) :
               /\ HasMatchedDeclaration(before[i], change_args[1])
               /\ after[i] # before[i]
               /\ before[j] # <<>>
               /\ ~HasMatchedDeclaration(before[j], change_args[1])
               /\ after[j] = before[j]

=============================================================================
